---- MODULE Spec2Model ----
\* superdriver: the annotation mapping of src/util/map.js (traverseMapping,
\* extractValue, mapResponse), the profile consumer (Consumer.perform and
\* Consumer.buildRequest), the options of the constructors and
\* Register.registerService.
\*
\* Strings the code builds or takes apart (cursor segments, property names,
\* profile ids) are sequences of one-character strings, so that "a" + "." + "b"
\* is <<"a", ".", "b">> and lodash's path splitting is computed, not assumed.
\* Strings the code only carries around (payload scalars, credential values)
\* are plain strings.
EXTENDS Integers, Sequences, FiniteSets, TLC

VARIABLES
    authentication,  \* Consumer: the credentials given to the constructor
    oas,             \* the OpenAPI document the provider serves
    apiSpecification, \* Consumer: the document fetched, once it is
    pc,              \* where the one perform call of the consumer stands
    request,         \* the request perform was called with
    httpRequest,     \* the request buildRequest returned
    fetched,         \* the calls of options.fetch so far, in order
    result,          \* what perform resolved with or rejected with
    httpResponse,    \* the payload the service answered with
    mappingSchema,   \* map.js: the schema handed to traverseMapping / mapResponse
    responseData,    \* map.js: the payload handed to extractValue / mapResponse
    mapPhase,        \* which of the map.js functions has been applied
    valueMapping,    \* the value traverseMapping / mapResponse returned (or threw)
    extracted,       \* the value extractValue returned for one scanned cursor
    mapCalls,        \* map.js: the calls made so far with this schema and payload
    DEFAULT_OPTIONS, \* the DEFAULT_OPTIONS object of the consumer module and of the register module
    instances,       \* the Consumers and Registers constructed so far, in order
    fetchCalled,     \* the last call of this.options.fetch: by which instance, of which fetch
    given,           \* buildRequest: the affordance id and the parameter id of the caller's input
    declaredFor,     \* buildRequest: the pair whose id a declared parameter is annotated with
    qualification,   \* buildRequest: the ids built and whether the parameter counts as provided
    registerPc,      \* Register.registerService: where the call stands
    registerFetched, \* Register.registerService: its calls of options.fetch, in order
    postResponse,    \* Register.registerService: the response to the POST
    conflictResponse, \* Register.registerService: the response to the GET of the conflict
    registration     \* Register.registerService: what it resolved or rejected with

mapVars == <<mappingSchema, responseData, mapPhase, valueMapping, extracted, mapCalls>>

consumerVars ==
    <<authentication, oas, apiSpecification, pc, request, httpRequest, fetched, result,
      httpResponse>>

optionVars == <<DEFAULT_OPTIONS, instances, fetchCalled>>

qualifyVars == <<given, declaredFor, qualification>>

registerVars == <<registerPc, registerFetched, postResponse, conflictResponse, registration>>

libraryVars == <<optionVars, qualifyVars, registerVars>>

vars == <<consumerVars, mapVars, libraryVars>>

-----------------------------------------------------------------------------
\* Bounds of the model.

\* Nesting depth of the generated schemas.
MaxDepth == 3

\* Largest number of elements of an array in a generated payload.
MaxElems == 2

-----------------------------------------------------------------------------
\* JavaScript values (payloads). Every value has the same four fields.

Value(kind, s, elems, fields) ==
    [kind |-> kind, s |-> s, elems |-> elems, fields |-> fields]

Undefined == Value("undefined", "", <<>>, <<>>)
Null == Value("null", "", <<>>, <<>>)
\* a thrown TypeError, as the outcome of an evaluation
TypeError == Value("TypeError", "", <<>>, <<>>)
StrV(s) == Value("string", s, <<>>, <<>>)
ArrV(elems) == Value("array", "", elems, <<>>)
\* fields: a sequence of [key |-> characters, val |-> value], in insertion order
ObjV(fields) == Value("object", "", <<>>, fields)
Field(key, val) == [key |-> key, val |-> val]

\* object[key] for a non-null object: an own property of an object; the
\* payloads hold no key that an array or a string answers ("length", an index).
RECURSIVE lookup(_, _, _)
lookup(fields, key, i) ==
    IF i > Len(fields) THEN Undefined
    ELSE IF fields[i].key = key THEN fields[i].val
    ELSE lookup(fields, key, i + 1)

Property(object, key) ==
    IF object.kind = "object" THEN lookup(object.fields, key, 1) ELSE Undefined

hasOwn(object, key) ==
    /\ object.kind = "object"
    /\ \E i \in 1..Len(object.fields) : object.fields[i].key = key

-----------------------------------------------------------------------------
\* lodash.get

\* String(undefined): the key lodash's toKey makes of an undefined path
undefinedKey == <<"u", "n", "d", "e", "f", "i", "n", "e", "d">>

\* cursor[0]: the first segment, undefined for an empty cursor
NoSegment == <<"undefined">>
first(cursor) == IF cursor = <<>> THEN NoSegment ELSE cursor[1]

\* stringToPath: the keys between the dots of a path
RECURSIVE stringToPath(_, _, _)
stringToPath(string, i, key) ==
    IF i > Len(string) THEN <<key>>
    ELSE IF string[i] = "." THEN <<key>> \o stringToPath(string, i + 1, <<>>)
    ELSE stringToPath(string, i + 1, Append(key, string[i]))

hasDot(string) == \E i \in 1..Len(string) : string[i] = "."

\* isKey(path, object) ? [path] : stringToPath(path)
castPath(path, object) ==
    IF path = NoSegment THEN <<undefinedKey>>
    ELSE IF ~hasDot(path) \/ hasOwn(object, path) THEN <<path>>
    ELSE stringToPath(path, 1, <<>>)

RECURSIVE baseGet(_, _, _)
baseGet(object, path, index) ==
    IF object.kind \in {"null", "undefined"} THEN Undefined
    ELSE IF index > Len(path) THEN object
    ELSE baseGet(Property(object, path[index]), path, index + 1)

\* a property read with no guard: reading a property of null or undefined throws
RECURSIVE unguardedGet(_, _, _)
unguardedGet(object, path, index) ==
    IF object.kind = "TypeError" THEN TypeError
    ELSE IF index > Len(path) THEN object
    ELSE IF object.kind \in {"null", "undefined"} THEN TypeError
    ELSE unguardedGet(Property(object, path[index]), path, index + 1)

_getUnguarded(object, path) == unguardedGet(object, castPath(path, object), 1)

\* _get(object, path): object == null ? undefined : baseGet(object, path)
_get(object, path) == baseGet(object, castPath(path, object), 1)

-----------------------------------------------------------------------------
\* Schema nodes (OpenAPI schema objects). itemsKind tells what `items` is:
\* "schema" (one schema object, items[1]), "list" (an array of schemas) or
\* "none" (no items key).

Node(type, hasXProfile, xProfile, properties, itemsKind, items) ==
    [type |-> type, hasXProfile |-> hasXProfile, xProfile |-> xProfile,
     properties |-> properties, itemsKind |-> itemsKind, items |-> items]

Prop(key, schema) == [key |-> key, schema |-> schema]

\* what a traversal returns: the entries, or err when it threw; cursor is the
\* state in which it leaves the cursor array it was handed
Ret(err, results, cursor) == [err |-> err, results |-> results, cursor |-> cursor]

Entry(profileId, cursor) == [profileId |-> profileId, cursor |-> cursor]

\* the sentinel processArray pushes
ArraySentinel == <<>>

-----------------------------------------------------------------------------
\* map.js: traverseMapping, processObject, processArray

RECURSIVE traverseMapping(_, _)
RECURSIVE processObject(_, _)
RECURSIVE processArray(_, _)
RECURSIVE processProperties(_, _, _, _)
RECURSIVE processPropertiesShared(_, _, _, _)

\* lines 54-61 with the sentinel left in place and the key pushed after it
pushKey(cursor, last, key) ==
    IF cursor # <<>> /\ last # ArraySentinel
    THEN [cursor EXCEPT ![Len(cursor)] = last \o <<".">> \o key]
    ELSE Append(cursor, key)

\* lines 54-61 with every key pushed as a segment of its own
pushSegment(cursor, last, key) ==
    IF cursor # <<>> /\ last = ArraySentinel
    THEN [cursor EXCEPT ![Len(cursor)] = key]
    ELSE Append(cursor, key)

\* processObject, lines 54-61: localCursor, a copy of cursor with key merged
\* into its last segment. last is cursor[cursor.length - 1], undefined (here
\* NoSegment) for an empty cursor.
localCursor(cursor, last, key) ==
    IF cursor # <<>> /\ last = ArraySentinel
    THEN [cursor EXCEPT ![Len(cursor)] = key]
    ELSE IF cursor # <<>> /\ last # <<>>
    THEN [cursor EXCEPT ![Len(cursor)] = last \o <<".">> \o key]
    ELSE Append(cursor, key)

\* the for-in loop with localCursor an alias of one array that every
\* iteration shares, so that a property sees what the one before it left
processPropertiesShared(properties, i, cursor, results) ==
    IF i > Len(properties) THEN Ret(FALSE, results, cursor)
    ELSE LET last == IF cursor = <<>> THEN NoSegment ELSE cursor[Len(cursor)]
             r == traverseMapping(properties[i].schema,
                                  localCursor(cursor, last, properties[i].key))
         IN  IF r.err THEN Ret(TRUE, <<>>, cursor)
             ELSE processPropertiesShared(properties, i + 1, r.cursor, results \o r.results)

\* the for-in loop of processObject from property i on; a throw inside ends it
processProperties(properties, i, cursor, results) ==
    IF i > Len(properties) THEN Ret(FALSE, results, cursor)
    ELSE LET last == IF cursor = <<>> THEN NoSegment ELSE cursor[Len(cursor)]
             r == traverseMapping(properties[i].schema,
                                  localCursor(cursor, last, properties[i].key))
         IN  IF r.err THEN Ret(TRUE, <<>>, cursor)
             ELSE processProperties(properties, i + 1, cursor, results \o r.results)

processObject(obj, cursor) == processProperties(obj.properties, 1, cursor, <<>>)

\* isObject(o): typeof o === "object" && o !== null, which an array satisfies
isObject(itemsKind) == itemsKind \in {"schema", "list"}

\* traverseMapping of an array of schemas: an array has neither an x-profile
\* key nor a type, so nothing is found in it
traverseList(cursor) == Ret(FALSE, <<>>, cursor)

\* the for-of loop of lines 86-90: it returns from its first iteration;
\* with no items there is nothing to iterate and for-of throws
firstItem(obj, cursor) ==
    IF obj.itemsKind = "none" THEN Ret(TRUE, <<>>, cursor)
    ELSE IF obj.items = <<>> THEN Ret(FALSE, <<>>, cursor)
    ELSE traverseMapping(obj.items[1], Append(cursor, ArraySentinel))

processArray(obj, cursor) ==
    IF isObject(obj.itemsKind)
    THEN IF obj.itemsKind = "schema"
         THEN traverseMapping(obj.items[1], Append(cursor, ArraySentinel))
         ELSE traverseList(Append(cursor, ArraySentinel))
    ELSE firstItem(obj, cursor)

traverseMapping(obj, cursor) ==
    LET own == IF obj.hasXProfile THEN <<Entry(obj.xProfile, cursor)>> ELSE <<>>
        r == IF obj.type = "object" THEN processObject(obj, cursor)
             ELSE IF obj.type = "array" THEN processArray(obj, cursor)
             ELSE Ret(FALSE, <<>>, cursor)
    IN  IF r.err THEN Ret(TRUE, <<>>, r.cursor)
        ELSE Ret(FALSE, own \o r.results, r.cursor)

-----------------------------------------------------------------------------
\* map.js: extractValue, mapResponse

RECURSIVE extractValue(_, _)
RECURSIVE extractElements(_, _, _)

rest(cursor) == IF cursor = <<>> THEN <<>> ELSE Tail(cursor)

\* the loop of lines 115-117 from element i on
extractElements(elements, cursor, i) ==
    IF i > Len(elements) THEN <<>>
    ELSE <<extractValue(elements[i], cursor)>> \o extractElements(elements, cursor, i + 1)

anyThrew(values) == \E i \in 1..Len(values) : values[i].kind = "TypeError"

extractValue(data, cursor) ==
    LET value == _get(data, first(cursor))
    IN  IF value.kind = "array"
        THEN LET arrayValue == extractElements(value.elems, rest(cursor), 1)
             IN  IF anyThrew(arrayValue) THEN TypeError ELSE ArrV(arrayValue)
        ELSE value

Mapped(entry, value) ==
    [profileId |-> entry.profileId, cursor |-> entry.cursor, value |-> value]

\* mapResponse: the entries of traverseMapping, each with its extracted value
mapResponse(schema, data) ==
    LET scan == traverseMapping(schema, <<>>)
        vals == [i \in 1..Len(scan.results) |->
                    extractValue(data, scan.results[i].cursor)]
    IN  IF scan.err \/ anyThrew(vals) THEN [err |-> TRUE, results |-> <<>>]
        ELSE [err |-> FALSE,
              results |-> [i \in 1..Len(scan.results) |-> Mapped(scan.results[i], vals[i])]]

-----------------------------------------------------------------------------
\* The consumer: constants

\* OAS_SOURCE
SourceBasicUser == "security-basic-user"
SourceBasicPassword == "security-basic-password"
SourceApikeyKey == "security-apikey-key"
SourceApikeySecret == "security-apikey-secret"

\* the keys of the credential store and of its schemes
basic == <<"b", "a", "s", "i", "c">>
apikey == <<"a", "p", "i", "k", "e", "y">>
userField == <<"u", "s", "e", "r">>
passwordField == <<"p", "a", "s", "s", "w", "o", "r", "d">>
keyField == <<"k", "e", "y">>
secretField == <<"s", "e", "c", "r", "e", "t">>

\* JavaScript truthiness
truthy(value) ==
    CASE value.kind \in {"undefined", "null"} -> FALSE
      [] value.kind = "string" -> value.s # ""
      [] value.kind = "number" -> value.s # "0"
      [] value.kind = "boolean" -> value.s = "true"
      [] OTHER -> TRUE

NumV(s) == Value("number", s, <<>>, <<>>)
BoolV(s) == Value("boolean", s, <<>>, <<>>)

-----------------------------------------------------------------------------
\* The consumer: the OpenAPI document

\* a parameter object. super tells what its x-super holds: "none" (no x-super
\* key), "source", "value", or "empty" (an x-super with neither key)
Parameter(pname, in, hasRequired, required, hasXProfile, xProfile, super, source, value) ==
    [name |-> pname, in |-> in, hasRequired |-> hasRequired, required |-> required,
     hasXProfile |-> hasXProfile, xProfile |-> xProfile,
     super |-> super, source |-> source, value |-> value]

\* a property of a request body schema: its x-profile and x-super (source or
\* value), whether the schema lists it as required, and its own properties
BodyProperty(pkey, hasXProfile, xProfile, super, source, value, required, properties) ==
    [key |-> pkey, hasXProfile |-> hasXProfile, xProfile |-> xProfile,
     super |-> super, source |-> source, value |-> value, required |-> required,
     properties |-> properties]

MediaType(mediaType, properties) == [mediaType |-> mediaType, properties |-> properties]

\* a response of an operation, under its status code; hasSchema tells whether
\* it has content['application/json'].schema
Response(code, hasSchema, schema) == [code |-> code, hasSchema |-> hasSchema, schema |-> schema]

\* an operation object: its x-profile, parameters, requestBody.content,
\* security (the scheme id of each requirement) and responses (in the order
\* for-in visits them)
Operation(xProfile, hasParameters, parameters, hasRequestBody, content, hasSecurity, security, responses) ==
    [xProfile |-> xProfile, hasParameters |-> hasParameters, parameters |-> parameters,
     hasRequestBody |-> hasRequestBody, content |-> content,
     hasSecurity |-> hasSecurity, security |-> security, responses |-> responses]

\* the document: paths, each with its operations by method, and
\* components.securitySchemes (id and scheme of each)
PathOperation(method, details) == [method |-> method, details |-> details]
PathItem(url, operations) == [url |-> url, operations |-> operations]
SecurityScheme(id, scheme) == [id |-> id, scheme |-> scheme]
Document(paths, hasSecuritySchemes, securitySchemes) ==
    [paths |-> paths, hasSecuritySchemes |-> hasSecuritySchemes,
     securitySchemes |-> securitySchemes]

\* a URL: literal text, {name} templates, and the values put in their place
Lit(text) == [kind |-> "lit", name |-> text, val |-> Undefined]
Hole(pname) == [kind |-> "hole", name |-> pname, val |-> Undefined]
Filled(pname, value) == [kind |-> "value", name |-> pname, val |-> value]

\* url.replace(`{name}`, value): the first {name} of the url
RECURSIVE replace(_, _, _, _)
replace(url, pname, value, i) ==
    IF i > Len(url) THEN url
    ELSE IF url[i].kind = "hole" /\ url[i].name = pname
    THEN [url EXCEPT ![i] = Filled(pname, value)]
    ELSE replace(url, pname, value, i + 1)

\* headers[name] = value
Item(iname, value) == [name |-> iname, value |-> value]

setHeader(headers, hname, value) ==
    IF \E i \in 1..Len(headers) : headers[i].name = hname
    THEN [i \in 1..Len(headers) |->
             IF headers[i].name = hname THEN Item(hname, value) ELSE headers[i]]
    ELSE Append(headers, Item(hname, value))

-----------------------------------------------------------------------------
\* Consumer.buildRequest

\* `${profileId}#${affordanceId}/${parameterId}`
qualified(profileId, affordanceId, parameterId) ==
    profileId \o <<"#">> \o affordanceId \o <<"/">> \o parameterId

\* lines 195-199: the input parameters under their fully qualified ids
inputParameters(profileId, affordanceId, parameters) ==
    IF parameters.kind # "object" THEN ObjV(<<>>)
    ELSE ObjV([i \in 1..Len(parameters.fields) |->
                  Field(qualified(profileId, affordanceId, parameters.fields[i].key),
                        parameters.fields[i].val)])

\* fullParameterId && (fullParameterId in inputParameters)
isProvided(declared, inputs) ==
    declared.hasXProfile /\ declared.xProfile # <<>> /\ hasOwn(inputs, declared.xProfile)

\* authentication && (scheme in authentication) ? authentication[scheme][field]
credential(auth, scheme, field) ==
    IF truthy(auth) /\ hasOwn(auth, scheme)
    THEN Property(Property(auth, scheme), field)
    ELSE Undefined

\* lines 229-246: the value the x-super metadata of a parameter gives
superValue(parameter, auth) ==
    IF parameter.super = "source"
    THEN CASE parameter.source = SourceBasicUser -> credential(auth, basic, userField)
           [] parameter.source = SourceApikeyKey -> credential(auth, apikey, keyField)
           [] OTHER -> Undefined
    ELSE IF parameter.super = "value" THEN parameter.value
    ELSE Undefined

\* lines 223-246 with the x-super metadata tried first
parameterValueSuperFirst(parameter, inputs, auth) ==
    IF parameter.super \in {"source", "value"} /\ truthy(superValue(parameter, auth))
    THEN superValue(parameter, auth)
    ELSE IF isProvided(parameter, inputs) THEN Property(inputs, parameter.xProfile)
    ELSE Undefined

\* lines 223-246: parameterValue
parameterValue(parameter, inputs, auth) ==
    IF isProvided(parameter, inputs) THEN Property(inputs, parameter.xProfile)
    ELSE IF parameter.super # "none" THEN superValue(parameter, auth)
    ELSE Undefined

\* line 249 with every parameter placed
alwaysPlaced(parameter, inputs, auth) == TRUE

\* line 249: isProvided || parameterValue
isPlaced(parameter, inputs, auth) ==
    isProvided(parameter, inputs) \/ truthy(parameterValue(parameter, inputs, auth))

\* line 262 as console.error and return: the parameter is skipped
neverRequired(parameter) == FALSE

\* line 210: ('required' in parameter) ? parameter.required : false
isRequired(parameter) == parameter.hasRequired /\ parameter.required

\* the request under construction; thrown with the Error of line 263
Building(url, headers, query, thrown, error) ==
    [url |-> url, headers |-> headers, query |-> query, thrown |-> thrown, error |-> error]

NoError == [kind |-> "none", name |-> "", profileId |-> <<>>]
\* `required parameter '${name}' (profile id: '${fullParameterId}') not provided`
RequiredError(parameter) ==
    [kind |-> "required", name |-> parameter.name,
     profileId |-> IF parameter.hasXProfile THEN parameter.xProfile ELSE undefinedKey]
OtherError(kind) == [kind |-> kind, name |-> "", profileId |-> <<>>]

\* lines 249-264: one parameter placed in the request, skipped, or missing
placeParameter(parameter, inputs, auth, b) ==
    LET value == parameterValue(parameter, inputs, auth)
    IN  IF isPlaced(parameter, inputs, auth)
        THEN IF parameter.in = "query"
             THEN [b EXCEPT !.query = Append(b.query, Item(parameter.name, value))]
             ELSE IF parameter.in = "header"
             THEN [b EXCEPT !.headers = setHeader(b.headers, parameter.name, value)]
             ELSE [b EXCEPT !.url = replace(b.url, parameter.name, value, 1)]
        ELSE IF isRequired(parameter)
        THEN [b EXCEPT !.thrown = TRUE, !.error = RequiredError(parameter)]
        ELSE b

\* the forEach of lines 206-265 from parameter i on; a throw ends it
RECURSIVE processParameters(_, _, _, _, _)
processParameters(parameters, i, inputs, auth, b) ==
    IF i > Len(parameters) \/ b.thrown THEN b
    ELSE processParameters(parameters, i + 1, inputs, auth,
                           placeParameter(parameters[i], inputs, auth, b))

SupportedMediaTypes == {"application/json", "application/x-www-form-urlencoded"}

\* lines 292-310: what one property of the schema adds to the body
bodyValue(property, inputs, auth) ==
    IF property.hasXProfile /\ property.xProfile # <<>>
    THEN IF hasOwn(inputs, property.xProfile)
         THEN <<Field(property.key, Property(inputs, property.xProfile))>>
         ELSE <<>>
    ELSE IF property.super # "none"
    THEN IF property.source = SourceApikeyKey /\ truthy(auth) /\ hasOwn(auth, apikey)
         THEN <<Field(property.key, credential(auth, apikey, keyField))>>
         ELSE IF property.source = SourceApikeySecret /\ truthy(auth) /\ hasOwn(auth, apikey)
         THEN <<Field(property.key, credential(auth, apikey, secretField))>>
         ELSE <<>>
    ELSE <<>>

\* lines 291-311 with the properties of a property walked as well
RECURSIVE bodyOfNested(_, _, _, _, _)
bodyOfNested(properties, i, inputs, auth, body) ==
    IF i > Len(properties) THEN body
    ELSE bodyOfNested(properties, i + 1, inputs, auth,
                      bodyOfNested(properties[i].properties, 1, inputs, auth,
                                   body \o bodyValue(properties[i], inputs, auth)))

\* lines 291-311: the body built of the direct properties of a schema
RECURSIVE bodyOf(_, _, _, _, _)
bodyOf(properties, i, inputs, auth, body) ==
    IF i > Len(properties) THEN body
    ELSE bodyOf(properties, i + 1, inputs, auth,
                body \o bodyValue(properties[i], inputs, auth))

\* lines 274-313 with an unsupported media type passed over
RECURSIVE requestContentTypesSkipping(_, _, _, _)
requestContentTypesSkipping(content, i, inputs, auth) ==
    IF i > Len(content) THEN [unsupported |-> FALSE, types |-> <<>>]
    ELSE LET later == requestContentTypesSkipping(content, i + 1, inputs, auth)
         IN  IF content[i].mediaType \notin SupportedMediaTypes THEN later
             ELSE [unsupported |-> FALSE,
                   types |-> <<[mediaType |-> content[i].mediaType,
                                body |-> ObjV(bodyOf(content[i].properties, 1, inputs,
                                                     auth, <<>>))]>> \o later.types]

\* lines 274-313: the media types in declaration order; null at the first
\* unsupported one
RECURSIVE requestContentTypes(_, _, _, _)
requestContentTypes(content, i, inputs, auth) ==
    IF i > Len(content) THEN [unsupported |-> FALSE, types |-> <<>>]
    ELSE IF content[i].mediaType \notin SupportedMediaTypes
    THEN [unsupported |-> TRUE, types |-> <<>>]
    ELSE LET later == requestContentTypes(content, i + 1, inputs, auth)
         IN  [unsupported |-> later.unsupported,
              types |-> <<[mediaType |-> content[i].mediaType,
                           body |-> ObjV(bodyOf(content[i].properties, 1, inputs,
                                                auth, <<>>))]>> \o later.types]

\* lines 336-348: the scheme of each security requirement that the components
\* define (the callback returns early for one they do not)
RECURSIVE securityTypes(_, _, _)
securityTypes(security, schemes, i) ==
    IF i > Len(security) THEN <<>>
    ELSE (IF \E k \in 1..Len(schemes) : schemes[k].id = security[i]
          THEN <<(CHOOSE s \in {schemes[k] : k \in 1..Len(schemes)} :
                      s.id = security[i]).scheme>>
          ELSE <<>>)
         \o securityTypes(security, schemes, i + 1)

\* what buildRequest gives: a request (kind "request"), null, or a throw: the
\* Error of a required parameter, or the TypeError of line 328 (debug.error
\* is not a function)
Request(kind, error, url, method, query, headers, body, security) ==
    [kind |-> kind, error |-> error, url |-> url, method |-> method, query |-> query,
     headers |-> headers, body |-> body, security |-> security]

NoRequest(kind, error) == Request(kind, error, <<>>, "", <<>>, <<>>, Null, <<>>)

\* buildRequest(affordanceId, oasOperation, parameters) of a consumer with
\* this profileId, providerUrl, authentication and apiSpecification
buildRequest(this, affordanceId, oasOperation, parameters) ==
    LET details == oasOperation.details
        inputs == inputParameters(this.profileId, affordanceId, parameters)
        start == Building(<<Lit(this.providerUrl)>> \o oasOperation.url, <<>>, <<>>,
                          FALSE, NoError)
        b == IF details.hasParameters
             THEN processParameters(details.parameters, 1, inputs, this.authentication, start)
             ELSE start
        types == IF details.hasRequestBody
                 THEN requestContentTypes(details.content, 1, inputs, this.authentication)
                 ELSE [unsupported |-> FALSE, types |-> <<>>]
        headers == IF types.types # <<>>
                   THEN setHeader(b.headers, "content-type", StrV(types.types[1].mediaType))
                   ELSE b.headers
        body == IF types.types # <<>> THEN types.types[1].body ELSE Null
    IN  IF b.thrown THEN NoRequest("throw", b.error)
        ELSE IF types.unsupported THEN NoRequest("null", NoError)
        ELSE IF details.hasSecurity /\ ~this.apiSpecification.document.hasSecuritySchemes
        THEN NoRequest("throw", OtherError("TypeError"))
        ELSE Request("request", NoError, b.url, oasOperation.method, b.query,
                     setHeader(headers, "accept", StrV("application/json")), body,
                     IF details.hasSecurity
                     THEN securityTypes(details.security,
                                        this.apiSpecification.document.securitySchemes, 1)
                     ELSE <<>>)

-----------------------------------------------------------------------------
\* Consumer.findOperation, Consumer.execute, Consumer.normalizeResponse

\* a consumer: the fields of `this` the methods read
This(profileId, providerUrl, auth, specification) ==
    [profileId |-> profileId, providerUrl |-> providerUrl,
     authentication |-> auth, apiSpecification |-> specification]

\* no document fetched yet
NoSpecification == [fetched |-> FALSE, document |-> Document(<<>>, FALSE, <<>>)]
Specification(document) == [fetched |-> TRUE, document |-> document]

\* `${profileId}#${affordanceId}`
fullProfileAffordanceId(profileId, affordanceId) == profileId \o <<"#">> \o affordanceId

\* lines 157-163: the schema of the last 2xx response that has one
RECURSIVE responseSchema(_, _, _)
responseSchema(responses, i, found) ==
    IF i > Len(responses) THEN found
    ELSE responseSchema(responses, i + 1,
                        IF responses[i].code[1] = "2" /\ responses[i].hasSchema
                        THEN [has |-> TRUE, schema |-> responses[i].schema]
                        ELSE found)

NoSchema == [has |-> FALSE, schema |-> Node("", FALSE, <<>>, <<>>, "none", <<>>)]

NoOperation ==
    [found |-> FALSE, url |-> <<>>, method |-> "",
     details |-> Operation(<<>>, FALSE, <<>>, FALSE, <<>>, FALSE, <<>>, <<>>),
     responseSchema |-> NoSchema]

\* the loops of lines 145-175 from operation j of path i on
RECURSIVE findFrom(_, _, _, _)
findFrom(paths, i, j, fullId) ==
    IF i > Len(paths) THEN NoOperation
    ELSE IF j > Len(paths[i].operations) THEN findFrom(paths, i + 1, 1, fullId)
    ELSE IF paths[i].operations[j].details.xProfile = fullId
    THEN [found |-> TRUE, url |-> paths[i].url, method |-> paths[i].operations[j].method,
          details |-> paths[i].operations[j].details,
          responseSchema |->
              responseSchema(paths[i].operations[j].details.responses, 1, NoSchema)]
    ELSE findFrom(paths, i, j + 1, fullId)

\* findOperation without the test of line 153: the first operation of the
\* document, whatever its x-profile
findOperationFirst(this, affordanceId) ==
    IF ~this.apiSpecification.fetched \/ this.profileId = <<>>
          \/ this.apiSpecification.document.paths = <<>>
    THEN NoOperation
    ELSE LET path == this.apiSpecification.document.paths[1]
         IN  [found |-> TRUE, url |-> path.url, method |-> path.operations[1].method,
              details |-> path.operations[1].details, responseSchema |-> NoSchema]

findOperation(this, affordanceId) ==
    IF ~this.apiSpecification.fetched \/ this.profileId = <<>> THEN NoOperation
    ELSE findFrom(this.apiSpecification.document.paths, 1, 1,
                  fullProfileAffordanceId(this.profileId, affordanceId))

\* `Basic ${base64.encode(user + ":" + password)}`
basicAuthorization(security) ==
    ObjV(<<Field(userField, Property(security, userField)),
           Field(passwordField, Property(security, passwordField))>>)

\* a call of options.fetch
Fetch(target, url, query, headers, method, body) ==
    [target |-> target, url |-> url, query |-> query, headers |-> headers,
     method |-> method, body |-> body]

\* execute up to its call of fetch: the call, or the error thrown before it
execute(this, built) ==
    IF built.kind = "null" THEN [thrown |-> TRUE, error |-> OtherError("TypeError")]
    ELSE IF built.security # <<>>
    THEN IF ~truthy(this.authentication)
         THEN [thrown |-> TRUE, error |-> OtherError("TypeError")]
         ELSE IF ~hasOwn(this.authentication, built.security[1])
         THEN [thrown |-> TRUE, error |-> OtherError("credentials not provided")]
         ELSE IF built.security[1] = basic
         THEN [thrown |-> FALSE,
               call |-> Fetch("service", built.url, built.query,
                              setHeader(built.headers, "Authorization",
                                        basicAuthorization(Property(this.authentication, basic))),
                              built.method, built.body)]
         ELSE [thrown |-> TRUE, error |-> OtherError("not yet supported")]
    ELSE [thrown |-> FALSE,
          call |-> Fetch("service", built.url, built.query, built.headers,
                         built.method, built.body)]

\* result[name] = value
setField(fields, fkey, value) ==
    IF \E i \in 1..Len(fields) : fields[i].key = fkey
    THEN [i \in 1..Len(fields) |->
             IF fields[i].key = fkey THEN Field(fkey, value) ELSE fields[i]]
    ELSE Append(fields, Field(fkey, value))

\* qualifiedProperties.indexOf(id), from 1; 0 when it is not there
indexOf(qualifiedProperties, id) ==
    IF \E i \in 1..Len(qualifiedProperties) : qualifiedProperties[i] = id
    THEN CHOOSE i \in 1..Len(qualifiedProperties) :
             /\ qualifiedProperties[i] = id
             /\ \A j \in 1..(i - 1) : qualifiedProperties[j] # id
    ELSE 0

\* the loop of lines 448-453 with `if (index)` for `if (index >= 0)`: the
\* first requested name is passed over, an entry that matches none is kept
RECURSIVE resultOfTruthyIndex(_, _, _, _, _)
resultOfTruthyIndex(mappedResponse, i, qualifiedProperties, requestedResponse, fields) ==
    IF i > Len(mappedResponse) THEN fields
    ELSE LET index == indexOf(qualifiedProperties, mappedResponse[i].profileId)
         IN  resultOfTruthyIndex(mappedResponse, i + 1, qualifiedProperties,
                                 requestedResponse,
                                 IF index # 1
                                 THEN setField(fields,
                                               IF index = 0 THEN undefinedKey
                                               ELSE requestedResponse[index],
                                               mappedResponse[i].value)
                                 ELSE fields)

\* the loop of lines 448-453 from entry i on
RECURSIVE resultOf(_, _, _, _, _)
resultOf(mappedResponse, i, qualifiedProperties, requestedResponse, fields) ==
    IF i > Len(mappedResponse) THEN fields
    ELSE LET index == indexOf(qualifiedProperties, mappedResponse[i].profileId)
         IN  resultOf(mappedResponse, i + 1, qualifiedProperties, requestedResponse,
                      IF index > 0
                      THEN setField(fields, requestedResponse[index], mappedResponse[i].value)
                      ELSE fields)

\* normalizeResponse with the requested names qualified with "/" for "#"
normalizeResponseSlash(this, operation, response, requestedResponse) ==
    IF ~operation.responseSchema.has THEN [thrown |-> FALSE, value |-> Null]
    ELSE LET qualifiedProperties ==
                 [i \in 1..Len(requestedResponse) |->
                     this.profileId \o <<"/">> \o requestedResponse[i]]
             mappedResponse == mapResponse(operation.responseSchema.schema, response)
         IN  IF mappedResponse.err THEN [thrown |-> TRUE, value |-> TypeError]
             ELSE [thrown |-> FALSE,
                   value |-> ObjV(resultOf(mappedResponse.results, 1, qualifiedProperties,
                                           requestedResponse, <<>>))]

\* normalizeResponse(operation, response, requestedResponse): the result, null
\* without a response schema, or the error mapResponse threw
normalizeResponse(this, operation, response, requestedResponse) ==
    IF ~operation.responseSchema.has THEN [thrown |-> FALSE, value |-> Null]
    ELSE LET qualifiedProperties ==
                 [i \in 1..Len(requestedResponse) |->
                     this.profileId \o <<"#">> \o requestedResponse[i]]
             mappedResponse == mapResponse(operation.responseSchema.schema, response)
         IN  IF mappedResponse.err THEN [thrown |-> TRUE, value |-> TypeError]
             ELSE [thrown |-> FALSE,
                   value |-> ObjV(resultOf(mappedResponse.results, 1, qualifiedProperties,
                                           requestedResponse, <<>>))]

-----------------------------------------------------------------------------
\* Inputs of the map.js functions: schemas and payloads.

KeyA == <<"a">>
KeyB == <<"b">>
KeyC == <<"c">>
companies == <<"c", "o", "m", "p", "a", "n", "i", "e", "s">>
name == <<"n", "a", "m", "e">>
title == <<"t", "i", "t", "l", "e">>

\* the profile ids "P#op/Name" and "P#op/title"
IdName == <<"P", "#", "o", "p", "/", "N", "a", "m", "e">>
IdTitle == <<"P", "#", "o", "p", "/", "t", "i", "t", "l", "e">>

Leaf == Node("string", FALSE, <<>>, <<>>, "none", <<>>)
Annotated(node, id) == [node EXCEPT !.hasXProfile = TRUE, !.xProfile = id]
ObjectOf(properties) == Node("object", FALSE, <<>>, properties, "none", <<>>)
ArrayOf(items) == Node("array", FALSE, <<>>, <<>>, "schema", <<items>>)
TupleOf(items) == Node("array", FALSE, <<>>, <<>>, "list", items)
ArrayNoItems == Node("array", FALSE, <<>>, <<>>, "none", <<>>)

Leaves == {Leaf, Annotated(Leaf, IdName), Annotated(Leaf, IdTitle)}

WithOrWithout(nodes) == nodes \cup {Annotated(n, IdName) : n \in nodes}

\* the children of the two-property objects
Siblings ==
    {Leaf, Annotated(Leaf, IdName), ArrayOf(Annotated(Leaf, IdTitle)),
     ArrayOf(ObjectOf(<<Prop(KeyC, Annotated(Leaf, IdTitle))>>)),
     ObjectOf(<<Prop(KeyC, Annotated(Leaf, IdTitle))>>)}

\* schemas every depth holds: two-property objects, tuple-typed arrays,
\* an array with no items, an object with no properties
Shapes ==
    {ObjectOf(<<Prop(KeyA, x), Prop(KeyB, y)>>) : x \in Siblings, y \in Siblings}
    \cup WithOrWithout({ArrayNoItems, ObjectOf(<<>>)})
    \cup {TupleOf(<<>>), TupleOf(<<Annotated(Leaf, IdName), Annotated(Leaf, IdTitle)>>),
          Annotated(TupleOf(<<Leaf, Annotated(Leaf, IdName)>>), IdTitle)}

\* the property name used at nesting depth d: a, b, c, a, ...
KeyAt(d) == IF d % 3 = 1 THEN KeyC ELSE IF d % 3 = 2 THEN KeyB ELSE KeyA

\* the schemas of depth at most d: a schema of depth d - 1 under one property
\* of an object, or as the items of an array
RECURSIVE SchemasOfDepth(_)
SchemasOfDepth(d) ==
    IF d = 0 THEN Leaves
    ELSE LET below == SchemasOfDepth(d - 1)
         IN  Leaves \cup Shapes
             \cup WithOrWithout({ObjectOf(<<Prop(KeyAt(d), s)>>) : s \in below})
             \cup WithOrWithout({ArrayOf(s) : s \in below})

\* object{companies: array of object{name: annotated P#op/Name}}
CompaniesSchema ==
    ObjectOf(<<Prop(companies,
                    ArrayOf(ObjectOf(<<Prop(name, Annotated(Leaf, IdName))>>)))>>)

\* object{tags: array of string, annotated at the array}
TagsSchema == ObjectOf(<<Prop(KeyA, Annotated(ArrayOf(Leaf), IdName))>>)

\* object{companies: array of object{tags: array of string, annotated at tags}}
CompaniesTagsSchema ==
    ObjectOf(<<Prop(companies,
                    ArrayOf(ObjectOf(<<Prop(KeyA, Annotated(ArrayOf(Leaf), IdName))>>)))>>)

Schemas == SchemasOfDepth(MaxDepth) \cup {CompaniesSchema, TagsSchema, CompaniesTagsSchema}

\* the scalar of element i of an array: "A", "B", ...
Letters == <<"A", "B", "C", "D", "E", "F">>
Letter(i) == IF i \in 1..Len(Letters) THEN Letters[i] ELSE "Z"

\* a payload of the shape the schema describes, every array holding n
\* elements; the scalars below element i of an array are Letter(i)
RECURSIVE Instance(_, _, _)
Instance(schema, n, i) ==
    IF schema.type = "object"
    THEN ObjV([k \in 1..Len(schema.properties) |->
                  Field(schema.properties[k].key,
                        Instance(schema.properties[k].schema, n, i))])
    ELSE IF schema.type = "array"
    THEN ArrV([k \in 1..n |->
                  IF schema.itemsKind = "schema" THEN Instance(schema.items[1], n, k)
                  ELSE StrV(Letter(k))])
    ELSE StrV(Letter(i))

\* the payload with the last element of each array replaced by null and, where
\* there is no array, the last property of each object left out
RECURSIVE Sparse(_)
Sparse(value) ==
    IF value.kind = "array" /\ value.elems # <<>>
    THEN ArrV([k \in 1..Len(value.elems) |->
                  IF k = Len(value.elems) THEN Null ELSE value.elems[k]])
    ELSE IF value.kind = "object" /\ value.fields # <<>>
    THEN LET n == Len(value.fields)
             lastVal == value.fields[n].val
         IN  IF lastVal.kind \in {"array", "object"}
             THEN ObjV([k \in 1..n |->
                           IF k = n THEN Field(value.fields[k].key, Sparse(lastVal))
                           ELSE value.fields[k]])
             ELSE ObjV(SubSeq(value.fields, 1, n - 1))
    ELSE value

\* payloads of no particular shape
OddPayloads ==
    {Undefined, Null, StrV("A"), ObjV(<<>>),
     ArrV(<<ObjV(<<Field(name, StrV("A"))>>), ObjV(<<Field(name, StrV("B"))>>)>>),
     ObjV(<<Field(KeyA, ArrV(<<ArrV(<<StrV("A")>>), StrV("B")>>))>>)}

Payloads(schema) ==
    {Instance(schema, n, 1) : n \in 0..MaxElems}
    \cup {Sparse(Instance(schema, MaxElems, 1))}
    \cup OddPayloads

-----------------------------------------------------------------------------
\* Inputs of the consumer: documents, credentials and requests.

\* Largest number of parameters of an operation.
MaxParams == 2

ProfileId == <<"P">>
OpId == <<"o", "p">>
OtherOpId == <<"o", "t", "h", "e", "r">>
NoSuchOpId == <<"n", "o">>
ProviderUrl == "https://provider"

\* the names of the declared parameters, and the names the caller knows them by
ParamNames == <<"p1", "p2", "p3", "p4">>
ParamIds == <<<<"w">>, <<"x">>, <<"y">>, <<"z">>>>

ParamProfileId(k) == qualified(ProfileId, OpId, ParamIds[k])

\* what the x-super of a parameter may hold
SuperOptions ==
    {[super |-> "none", source |-> "", value |-> Undefined],
     [super |-> "value", source |-> "", value |-> StrV("literal")],
     [super |-> "value", source |-> "", value |-> NumV("0")],
     [super |-> "value", source |-> "", value |-> BoolV("false")],
     [super |-> "value", source |-> "", value |-> StrV("")]}
    \cup {[super |-> "source", source |-> s, value |-> Undefined] :
             s \in {SourceBasicUser, SourceBasicPassword, SourceApikeyKey, SourceApikeySecret}}

\* every declaration of parameter k
Parameters(k) ==
    {Parameter(ParamNames[k], in, required, required, annotated,
               IF annotated THEN ParamProfileId(k) ELSE <<>>,
               x.super, x.source, x.value) :
        in \in {"query", "header", "path"}, required \in BOOLEAN,
        annotated \in BOOLEAN, x \in SuperOptions}

\* the declaration of parameter k when it accompanies the one that varies: a
\* required annotated query parameter, an optional header with a literal, an
\* optional annotated query parameter, by position
Companion(k) ==
    IF k % 3 = 1
    THEN Parameter(ParamNames[k], "query", TRUE, TRUE, TRUE, ParamProfileId(k),
                   "none", "", Undefined)
    ELSE IF k % 3 = 2
    THEN Parameter(ParamNames[k], "header", FALSE, FALSE, FALSE, <<>>,
                   "value", "", StrV("literal"))
    ELSE Parameter(ParamNames[k], "query", FALSE, FALSE, TRUE, ParamProfileId(k),
                   "none", "", Undefined)

\* the lists of n parameters of which parameter v is any declaration and the
\* others are companions
ListsOf(n, v) ==
    {[k \in 1..n |-> IF k = v THEN x ELSE Companion(k)] : x \in Parameters(v)}

\* the parameter lists: up to MaxParams parameters
ParameterLists == {<<>>} \cup UNION {UNION {ListsOf(n, v) : v \in 1..n} : n \in 1..MaxParams}

\* the url of the operation: a template of every parameter name
RECURSIVE templates(_)
templates(n) == IF n = 0 THEN <<>> ELSE templates(n - 1) \o <<Lit("/"), Hole(ParamNames[n])>>

OperationUrl == <<Lit("/op")>> \o templates(MaxParams)

\* object{title: annotated P#op/title}
TitleSchema == ObjectOf(<<Prop(title, Annotated(Leaf, IdTitle))>>)
TitleResponse == ObjV(<<Field(title, StrV("T"))>>)

\* the operation annotated P#other that each document holds before P#op
OtherOperation ==
    Operation(fullProfileAffordanceId(ProfileId, OtherOpId), FALSE, <<>>, FALSE, <<>>,
              FALSE, <<>>, <<>>)

DocumentOf(operation) ==
    Document(<<PathItem(<<Lit("/other")>>, <<PathOperation("post", OtherOperation)>>),
               PathItem(OperationUrl, <<PathOperation("get", operation)>>)>>,
             FALSE, <<>>)

Documents ==
    {DocumentOf(Operation(fullProfileAffordanceId(ProfileId, OpId), TRUE, parameters,
                          FALSE, <<>>, FALSE, <<>>,
                          <<Response(<<"2", "0", "0">>, TRUE, TitleSchema)>>)) :
        parameters \in ParameterLists}

BasicCredentials == Field(basic, ObjV(<<Field(userField, StrV("alice")),
                                        Field(passwordField, StrV("pw"))>>))
ApikeyCredentials == Field(apikey, ObjV(<<Field(keyField, StrV("k1")),
                                          Field(secretField, StrV("s1"))>>))

\* the credential stores: none, an empty one, one scheme, both
CredentialStores ==
    {Undefined, ObjV(<<>>), ObjV(<<BasicCredentials>>), ObjV(<<ApikeyCredentials>>),
     ObjV(<<BasicCredentials, ApikeyCredentials>>)}

\* the value the caller gives parameter k
InputValues == <<"in1", "in2", "in3", "in4">>

\* the parameters of a request: each of the first MaxParams names given or
\* not; the first may be given as the empty string
RECURSIVE inputFields(_, _)
inputFields(choice, k) ==
    IF k > MaxParams THEN <<>>
    ELSE (IF choice[k] = 0 THEN <<>>
          ELSE <<Field(ParamIds[k], IF choice[k] = 1 THEN StrV(InputValues[k]) ELSE StrV(""))>>)
         \o inputFields(choice, k + 1)

InputParameters ==
    {ObjV(inputFields(choice, 1)) :
        choice \in {c \in [1..MaxParams -> 0..2] : \A k \in 2..MaxParams : c[k] < 2}}

RequestedResponse == <<<<"o", "p", "/", "t", "i", "t", "l", "e">>,
                       <<"o", "p", "/", "d", "e", "s", "c">>>>

PerformRequest(operation, parameters, response) ==
    [operation |-> operation, parameters |-> parameters, response |-> response]

\* other lists of requested names: ["title", "description"] and
\* ["op/Name", "op/title"]
OtherRequestedResponses ==
    {<<title, <<"d", "e", "s", "c", "r", "i", "p", "t", "i", "o", "n">>>>,
     <<<<"o", "p", "/", "N", "a", "m", "e">>, <<"o", "p", "/", "t", "i", "t", "l", "e">>>>}

Requests ==
    {PerformRequest(OpId, parameters, RequestedResponse) : parameters \in InputParameters}
    \cup {PerformRequest(NoSuchOpId, ObjV(<<>>), RequestedResponse)}
    \cup {PerformRequest(OpId, ObjV(<<>>), response) : response \in OtherRequestedResponses}

-----------------------------------------------------------------------------
\* Inputs of the consumer: operations with a request body.

\* Largest number of media types of a request body.
MaxMediaTypes == 2

BodyKey == <<"b", "1">>
OuterKey == <<"o", "1">>
NestedKey == <<"n", "1">>
LaterKey == <<"l", "1">>

\* every declaration of the body property b1, annotated P#op/w or not
BodyProperties ==
    {BodyProperty(BodyKey, annotated, IF annotated THEN ParamProfileId(1) ELSE <<>>,
                  x.super, x.source, x.value, isrequired, <<>>) :
        annotated \in BOOLEAN, isrequired \in BOOLEAN,
        x \in {o \in SuperOptions : o.value \in {Undefined, StrV("literal")}}}

\* the property o1: an object whose property n1 is annotated P#op/x
NestingProperty ==
    BodyProperty(OuterKey, FALSE, <<>>, "none", "", Undefined, FALSE,
                 <<BodyProperty(NestedKey, TRUE, ParamProfileId(2), "none", "", Undefined,
                                FALSE, <<>>)>>)

\* the property of the media types declared after the first: l1, annotated P#op/w
LaterProperty ==
    BodyProperty(LaterKey, TRUE, ParamProfileId(1), "none", "", Undefined, FALSE, <<>>)

MediaTypeNames == {"application/json", "application/x-www-form-urlencoded", "text/xml"}

\* the request bodies of n media types whose first schema has the property b1
ContentsOf(n, b1) ==
    {[i \in 1..n |-> MediaType(names[i], IF i = 1 THEN <<b1, NestingProperty>>
                                         ELSE <<LaterProperty>>)] :
        names \in [1..n -> MediaTypeNames]}

\* the document of an operation P#op with the url /op and one response
OperationDocument(hasParameters, parameters, hasRequestBody, content, hasSecurity, security, hasSecuritySchemes, securitySchemes, responses) ==
    Document(<<PathItem(<<Lit("/other")>>, <<PathOperation("post", OtherOperation)>>),
               PathItem(<<Lit("/op")>>,
                        <<PathOperation("post",
                              Operation(fullProfileAffordanceId(ProfileId, OpId),
                                        hasParameters, parameters, hasRequestBody, content,
                                        hasSecurity, security, responses))>>)>>,
             hasSecuritySchemes, securitySchemes)

TitleResponses == <<Response(<<"2", "0", "0">>, TRUE, TitleSchema)>>

BodyDocuments ==
    {OperationDocument(FALSE, <<>>, TRUE, content, FALSE, <<>>, FALSE, <<>>, TitleResponses) :
        content \in UNION {UNION {ContentsOf(n, b1) : b1 \in BodyProperties} :
                              n \in 1..MaxMediaTypes}}

-----------------------------------------------------------------------------
\* Inputs of the consumer: operations with security requirements.

\* Largest number of security requirements of an operation.
MaxSecurity == 2

\* the ids of the requirements: two the components may define, one they never do
SecurityIds == {"basicAuth", "keyAuth", "ghostAuth"}

\* components.securitySchemes: missing, or defining basicAuth, or both
SecurityComponents ==
    {[has |-> FALSE, schemes |-> <<>>],
     [has |-> TRUE, schemes |-> <<SecurityScheme("basicAuth", basic)>>],
     [has |-> TRUE, schemes |-> <<SecurityScheme("basicAuth", basic),
                                  SecurityScheme("keyAuth", apikey)>>]}

SecurityDocuments ==
    {OperationDocument(FALSE, <<>>, FALSE, <<>>, TRUE, security, components.has,
                       components.schemes, TitleResponses) :
        security \in UNION {[1..n -> SecurityIds] : n \in 1..MaxSecurity},
        components \in SecurityComponents}

-----------------------------------------------------------------------------
\* Inputs of the consumer: operations with different responses.

\* object{title: P#op/title, name: P#op/Name}
TitleAndNameSchema ==
    ObjectOf(<<Prop(title, Annotated(Leaf, IdTitle)), Prop(name, Annotated(Leaf, IdName))>>)

\* object{a: P#op/title, b: P#op/title}
TwoTitlesSchema ==
    ObjectOf(<<Prop(KeyA, Annotated(Leaf, IdTitle)), Prop(KeyB, Annotated(Leaf, IdTitle))>>)

ResponseSchemas ==
    {TitleSchema, CompaniesSchema, TitleAndNameSchema, TwoTitlesSchema,
     Annotated(TitleSchema, IdName)}

\* the responses of an operation: none, none with a schema, none of a 2xx
\* status with a schema, one, two
ResponseLists ==
    {<<>>,
     <<Response(<<"2", "0", "0">>, FALSE, Leaf)>>,
     <<Response(<<"4", "0", "4">>, TRUE, TitleSchema)>>,
     <<Response(<<"2", "0", "0">>, TRUE, TitleSchema),
       Response(<<"2", "0", "1">>, TRUE, CompaniesSchema)>>}
    \cup {<<Response(<<"2", "0", "0">>, TRUE, schema)>> : schema \in ResponseSchemas}

ResponseDocuments ==
    {OperationDocument(FALSE, <<>>, FALSE, <<>>, FALSE, <<>>, FALSE, <<>>, responses) :
        responses \in ResponseLists}

-----------------------------------------------------------------------------
\* Consumer.perform: one call, from the call to its promise settling. The
\* steps between two awaits of an outside answer are one action.

NoMapping == [err |-> FALSE, results |-> <<>>]
NoneExtracted == [index |-> 0, value |-> Undefined]

NoPerformRequest == PerformRequest(<<>>, Undefined, <<>>)
NoResult == [state |-> "pending", value |-> Undefined, error |-> NoError]
Resolved(value) == [state |-> "resolved", value |-> value, error |-> NoError]
Rejected(error) == [state |-> "rejected", value |-> Undefined, error |-> error]

\* the fetch of the library, isomorphic-fetch, and the fetch functions a caller
\* may give
LibraryFetch == "isomorphic-fetch"
CallerFetches == {"fetchA", "fetchB"}

\* the classes of the library; each is a module with a DEFAULT_OPTIONS of its own
Classes == {"Consumer", "Register"}

\* DEFAULT_OPTIONS = { fetch: fetch }, as each module defines it
DefaultOptions == [class \in Classes |-> [fetch |-> LibraryFetch]]

\* no call of options.fetch yet
NoFetchCalled == [instance |-> 0, fetch |-> ""]

OptionsIdle ==
    /\ DEFAULT_OPTIONS = DefaultOptions
    /\ instances = <<>>
    /\ fetchCalled = NoFetchCalled

\* a pair (affordanceId, parameterId)
Pair(affordanceId, parameterId) == [affordanceId |-> affordanceId, parameterId |-> parameterId]

\* buildRequest not called
NoQualification ==
    [done |-> FALSE, inputId |-> <<>>, fullParameterId |-> <<>>, isProvided |-> FALSE]

QualifyIdle ==
    /\ given = Pair(<<>>, <<>>)
    /\ declaredFor = Pair(<<>>, <<>>)
    /\ qualification = NoQualification

\* no response yet
NoResponse == [status |-> 0, ok |-> FALSE, body |-> Undefined, json |-> FALSE]

\* registerService has not settled
NoRegistration == [state |-> "pending", result |-> ""]

RegisterIdle ==
    /\ registerPc = "idle"
    /\ registerFetched = <<>>
    /\ postResponse = NoResponse
    /\ conflictResponse = NoResponse
    /\ registration = NoRegistration

\* the variables of the constructors' options, of the qualification and of
\* the register, which the consumer's perform and map.js leave alone
LibraryIdle == OptionsIdle /\ QualifyIdle /\ RegisterIdle

\* a consumer on which perform has not been called
ConsumerIdle ==
    /\ authentication = Undefined
    /\ oas = Document(<<>>, FALSE, <<>>)
    /\ apiSpecification = NoSpecification
    /\ pc = "idle"
    /\ request = NoPerformRequest
    /\ httpRequest = NoRequest("none", NoError)
    /\ fetched = <<>>
    /\ result = NoResult
    /\ httpResponse = Undefined

\* the map.js variables, which the consumer leaves alone
MapIdle ==
    /\ mappingSchema = Leaf
    /\ responseData = Undefined
    /\ mapPhase = "idle"
    /\ valueMapping = NoMapping
    /\ extracted = NoneExtracted
    /\ mapCalls = 0

Init ==
    /\ MapIdle
    /\ LibraryIdle
    /\ authentication \in CredentialStores
    /\ oas \in Documents
    /\ apiSpecification = NoSpecification
    /\ pc = "idle"
    /\ request = NoPerformRequest
    /\ httpRequest = NoRequest("none", NoError)
    /\ fetched = <<>>
    /\ result = NoResult
    /\ httpResponse = Undefined

\* a consumer of a provider whose operation has a request body, security
\* requirements, or one of the response lists
InitOperations ==
    /\ MapIdle
    /\ LibraryIdle
    /\ authentication \in CredentialStores
    /\ oas \in BodyDocuments \cup SecurityDocuments \cup ResponseDocuments
    /\ apiSpecification = NoSpecification
    /\ pc = "idle"
    /\ request = NoPerformRequest
    /\ httpRequest = NoRequest("none", NoError)
    /\ fetched = <<>>
    /\ result = NoResult
    /\ httpResponse = Undefined

\* the call of fetch for the specification (lines 108-112)
SpecificationFetch == Fetch("specification", <<Lit(ProviderUrl), Lit("/oas")>>, <<>>,
                            <<Item("Accept", StrV("application/json"))>>, "get", Null)

\* perform from line 77 on, with the specification at hand: findOperation,
\* buildRequest, and execute up to its call of fetch
Proceed(specification, req, calls) ==
    LET this == This(ProfileId, ProviderUrl, authentication, specification)
        oasOperation == findOperation(this, req.operation)
        built == buildRequest(this, req.operation, oasOperation, req.parameters)
        sent == execute(this, built)
    IN  IF ~oasOperation.found
        THEN /\ pc' = "rejected"
             /\ result' = Rejected(OtherError("No operation found"))
             /\ httpRequest' = NoRequest("none", NoError)
             /\ fetched' = calls
        ELSE IF built.kind = "throw"
        THEN /\ pc' = "rejected"
             /\ result' = Rejected(built.error)
             /\ httpRequest' = built
             /\ fetched' = calls
        ELSE IF sent.thrown
        THEN /\ pc' = "rejected"
             /\ result' = Rejected(sent.error)
             /\ httpRequest' = built
             /\ fetched' = calls
        ELSE /\ pc' = "execute"
             /\ result' = NoResult
             /\ httpRequest' = built
             /\ fetched' = Append(calls, sent.call)

\* line 101 without its test: the specification is fetched again
PerformRefetching(req) ==
    /\ pc' = "fetchSpecification"
    /\ fetched' = <<SpecificationFetch>>
    /\ httpRequest' = NoRequest("none", NoError)
    /\ result' = NoResult

\* line 73 with the specification fetched by an earlier call
PerformCached(req) == Proceed(apiSpecification, req, <<>>)

\* perform(req) is called on a consumer with no call under way: with no
\* specification yet, it is fetched. request, httpRequest, fetched and result
\* are those of the call under way.
Perform ==
    /\ pc = "idle"
    /\ \E req \in Requests :
          /\ request' = req
          /\ IF apiSpecification.fetched
             THEN PerformCached(req)
             ELSE /\ pc' = "fetchSpecification"
                  /\ fetched' = <<SpecificationFetch>>
                  /\ httpRequest' = NoRequest("none", NoError)
                  /\ result' = NoResult
    /\ httpResponse' = Undefined
    /\ UNCHANGED <<authentication, oas, apiSpecification, mapVars, libraryVars>>

\* the specification arrives and is stored; perform goes on
SpecificationFetched ==
    /\ pc = "fetchSpecification"
    /\ apiSpecification' = Specification(oas)
    /\ Proceed(Specification(oas), request, fetched)
    /\ UNCHANGED <<authentication, oas, request, httpResponse, mapVars, libraryVars>>

\* the fetch of the specification fails, or the answer has no body
SpecificationFailed ==
    /\ pc = "fetchSpecification"
    /\ pc' = "rejected"
    /\ result' = Rejected(OtherError("No API specification found"))
    /\ UNCHANGED <<authentication, oas, apiSpecification, request, httpRequest, fetched,
                   httpResponse, mapVars, libraryVars>>

\* the payloads the service may answer an operation with: one that fits the
\* response schema, and the same with its last part missing
ResponsePayloads(operation) ==
    IF operation.responseSchema.has
    THEN {Instance(operation.responseSchema.schema, MaxElems, 1),
          Sparse(Instance(operation.responseSchema.schema, MaxElems, 1))}
    ELSE {TitleResponse}

\* the service answers ok: the response is normalized
ServiceResponded ==
    /\ pc = "execute"
    /\ LET this == This(ProfileId, ProviderUrl, authentication, apiSpecification)
           operation == findOperation(this, request.operation)
       IN  \E payload \in ResponsePayloads(operation) :
              LET normalized == normalizeResponse(this, operation, payload, request.response)
              IN  /\ httpResponse' = payload
                  /\ IF normalized.thrown
                     THEN pc' = "rejected" /\ result' = Rejected(OtherError("TypeError"))
                     ELSE pc' = "resolved" /\ result' = Resolved(normalized.value)
    /\ UNCHANGED <<authentication, oas, apiSpecification, request, httpRequest, fetched, mapVars, libraryVars>>

\* the service answers with an error status
ServiceFailed ==
    /\ pc = "execute"
    /\ pc' = "rejected"
    /\ result' = Rejected(OtherError("problem communicating with the service provider"))
    /\ UNCHANGED <<authentication, oas, apiSpecification, request, httpRequest, fetched,
                   httpResponse, mapVars, libraryVars>>

\* the promise of perform has settled: the call is over
Return ==
    /\ pc \in {"resolved", "rejected"}
    /\ pc' = "idle"
    /\ request' = NoPerformRequest
    /\ httpRequest' = NoRequest("none", NoError)
    /\ fetched' = <<>>
    /\ result' = NoResult
    /\ httpResponse' = Undefined
    /\ UNCHANGED <<authentication, oas, apiSpecification, mapVars, libraryVars>>

Next ==
    \/ Perform
    \/ Return
    \/ SpecificationFetched
    \/ SpecificationFailed
    \/ ServiceResponded
    \/ ServiceFailed

Spec == Init /\ [][Next]_vars

SpecOperations == InitOperations /\ [][Next]_vars

-----------------------------------------------------------------------------
\* The map.js functions applied to the inputs.

\* Largest number of calls of the map.js functions with one schema and payload.
MaxCalls == 3

InitMap ==
    /\ ConsumerIdle
    /\ LibraryIdle
    /\ mappingSchema \in Schemas
    /\ responseData \in Payloads(mappingSchema)
    /\ mapPhase = "input"
    /\ valueMapping = NoMapping
    /\ extracted = NoneExtracted
    /\ mapCalls = 0

\* traverseMapping(mappingSchema), for the first time or again
TraverseMapping ==
    /\ mapPhase \in {"input", "scanned"}
    /\ mapCalls < MaxCalls
    /\ mapCalls' = mapCalls + 1
    /\ LET r == traverseMapping(mappingSchema, <<>>)
       IN  valueMapping' = [err |-> r.err, results |-> r.results]
    /\ mapPhase' = "scanned"
    /\ UNCHANGED <<mappingSchema, responseData, extracted, consumerVars, libraryVars>>

\* extractValue(responseData, cursor) for the cursor of one scanned entry
ExtractValue ==
    /\ mapPhase \in {"scanned", "extracted"}
    /\ mapCalls < MaxCalls
    /\ mapCalls' = mapCalls + 1
    /\ \E i \in 1..Len(valueMapping.results) :
          extracted' = [index |-> i,
                        value |-> extractValue(responseData, valueMapping.results[i].cursor)]
    /\ mapPhase' = "extracted"
    /\ UNCHANGED <<mappingSchema, responseData, valueMapping, consumerVars, libraryVars>>

\* mapResponse with extractValue taking the elements off the arrays it reads:
\* the payload loses its last part
MapResponseConsuming ==
    /\ mapPhase \in {"input", "mapped"}
    /\ mapCalls < MaxCalls
    /\ mapCalls' = mapCalls + 1
    /\ valueMapping' = mapResponse(mappingSchema, responseData)
    /\ responseData' = Sparse(responseData)
    /\ mapPhase' = "mapped"
    /\ UNCHANGED <<mappingSchema, extracted, consumerVars, libraryVars>>

\* mapResponse(mappingSchema, responseData), for the first time or again
MapResponse ==
    /\ mapPhase \in {"input", "mapped"}
    /\ mapCalls < MaxCalls
    /\ mapCalls' = mapCalls + 1
    /\ valueMapping' = mapResponse(mappingSchema, responseData)
    /\ mapPhase' = "mapped"
    /\ UNCHANGED <<mappingSchema, responseData, extracted, consumerVars, libraryVars>>

NextMap == TraverseMapping \/ ExtractValue \/ MapResponse

SpecMap == InitMap /\ [][NextMap]_vars

-----------------------------------------------------------------------------
\* The constructors: this.options = Object.assign(DEFAULT_OPTIONS, options)

\* Largest number of instances constructed.
MaxInstances == 3

\* the options argument of a constructor: left out, {}, or { fetch: f }
ConstructorOptions ==
    {[given |-> FALSE, hasFetch |-> FALSE, fetch |-> ""],
     [given |-> TRUE, hasFetch |-> FALSE, fetch |-> ""]}
    \cup {[given |-> TRUE, hasFetch |-> TRUE, fetch |-> f] : f \in CallerFetches}

\* Object.assign(target, source): the own properties of source are written
\* into target, and target itself is what it returns
assign(target, source) ==
    IF source.given /\ source.hasFetch THEN [target EXCEPT !.fetch = source.fetch]
    ELSE target

InitOptions == ConsumerIdle /\ MapIdle /\ LibraryIdle

\* new Consumer(service, options) or new Register(registerUrl, options):
\* Object.assign writes into the module's DEFAULT_OPTIONS, and this.options
\* is that very object (named here by its class)
Construct ==
    /\ Len(instances) < MaxInstances
    /\ \E class \in Classes, options \in ConstructorOptions :
          /\ DEFAULT_OPTIONS' = [DEFAULT_OPTIONS EXCEPT ![class] = assign(@, options)]
          /\ instances' = Append(instances, [class |-> class, given |-> options,
                                             options |-> class])
    /\ UNCHANGED <<fetchCalled, qualifyVars, registerVars, consumerVars, mapVars>>

\* an instance calls this.options.fetch (fetchAPISpecification, execute,
\* findServices, registerService, unregisterService)
CallFetch ==
    /\ \E i \in 1..Len(instances) :
          fetchCalled' = [instance |-> i,
                          fetch |-> DEFAULT_OPTIONS[instances[i].options].fetch]
    /\ UNCHANGED <<DEFAULT_OPTIONS, instances, qualifyVars, registerVars, consumerVars,
                   mapVars>>

NextOptions == Construct \/ CallFetch

SpecOptions == InitOptions /\ [][NextOptions]_vars

-----------------------------------------------------------------------------
\* buildRequest: the qualification of an input against one declared parameter

\* affordance ids and parameter ids, some of them holding the separator
AffordanceIds == {<<"a">>, <<"a", "/", "b">>, <<"b">>, OpId}
ParameterIds == {<<"c">>, <<"b", "/", "c">>, <<"b">>, <<"w">>}

Pairs == {Pair(a, n) : a \in AffordanceIds, n \in ParameterIds}

InitQualify ==
    /\ ConsumerIdle /\ MapIdle /\ OptionsIdle /\ RegisterIdle
    /\ given \in Pairs
    /\ declaredFor \in Pairs
    /\ qualification = NoQualification

\* buildRequest(given.affordanceId, oasOperation, {[given.parameterId]: "in1"})
\* for an operation whose one query parameter p1 carries the id of the pair
\* declaredFor as its x-profile
Qualify ==
    /\ ~qualification.done
    /\ LET this == This(ProfileId, ProviderUrl, Undefined, Specification(Document(<<>>, FALSE, <<>>)))
           fullParameterId == qualified(ProfileId, declaredFor.affordanceId, declaredFor.parameterId)
           declared == Parameter("p1", "query", FALSE, FALSE, TRUE, fullParameterId, "none", "", Undefined)
           details == Operation(fullProfileAffordanceId(ProfileId, given.affordanceId),
                                TRUE, <<declared>>, FALSE, <<>>, FALSE, <<>>, <<>>)
           oasOperation == [found |-> TRUE, url |-> <<Lit("/op")>>, method |-> "get",
                            details |-> details, responseSchema |-> NoSchema]
           parameters == ObjV(<<Field(given.parameterId, StrV("in1"))>>)
           inputs == inputParameters(ProfileId, given.affordanceId, parameters)
           built == buildRequest(this, given.affordanceId, oasOperation, parameters)
       IN  qualification' = [done |-> TRUE,
                             inputId |-> inputs.fields[1].key,
                             fullParameterId |-> fullParameterId,
                             isProvided |-> built.query = <<Item("p1", StrV("in1"))>>]
    /\ UNCHANGED <<given, declaredFor, optionVars, registerVars, consumerVars, mapVars>>

SpecQualify == InitQualify /\ [][Qualify]_vars

-----------------------------------------------------------------------------
\* Register.registerService

CONFLICT_RELATION_KEY == "conflictUrl"

RegisterUrl == "https://register"

\* the services registered: { serviceUrl, mappingUrl, semanticProfile }
Services ==
    {[serviceUrl |-> s, mappingUrl |-> s \o "/oas", semanticProfile |-> "P"] :
        s \in {"https://provider", "https://other", "https://third"}}

\* a response of fetch: ok is what fetch makes of the status; json tells
\* whether the body is JSON, that is whether response.json() resolves
FetchResponse(status, body, json) ==
    [status |-> status, ok |-> status \in 200..299, body |-> body, json |-> json]

Statuses == {200, 201, 400, 409, 500}

ResponseBodies ==
    {Null, StrV("Conflict"), ObjV(<<>>),
     ObjV(<<Field(CONFLICT_RELATION_KEY, StrV(""))>>),
     ObjV(<<Field(CONFLICT_RELATION_KEY, Null)>>),
     ObjV(<<Field(CONFLICT_RELATION_KEY, StrV("/api/registry/1"))>>)}

Responses ==
    {FetchResponse(s, b, TRUE) : s \in Statuses, b \in ResponseBodies}
    \cup {FetchResponse(s, Undefined, FALSE) : s \in Statuses}

Settled(state, outcome) == [state |-> state, result |-> outcome]

\* lines 75-114, from the response to the POST on: what registerService
\* settles with, or the GET it goes on to ("conflict")
afterPost(response) ==
    IF ~response.json THEN Settled("rejected", "SyntaxError")
    ELSE IF response.ok THEN Settled("resolved", "created")
    ELSE IF response.status = 409
    THEN IF response.body.kind \in {"null", "undefined", "string", "number", "boolean"}
         THEN Settled("rejected", "TypeError")
         ELSE IF hasOwn(response.body, CONFLICT_RELATION_KEY)
         THEN IF ~truthy(Property(response.body, CONFLICT_RELATION_KEY))
              THEN Settled("rejected", "failed")
              ELSE Settled("conflict", "")
         ELSE Settled("rejected", "failed")
    ELSE Settled("rejected", "failed")

\* lines 103-111, from the response to the GET on
afterConflict(response) ==
    IF ~response.json THEN Settled("rejected", "SyntaxError")
    ELSE IF response.ok THEN Settled("resolved", "conflict")
    ELSE Settled("rejected", "failed-conflict")

InitRegister == ConsumerIdle /\ MapIdle /\ LibraryIdle

\* registerService(service) is called: the POST (lines 61-73)
RegisterService ==
    /\ registerPc = "idle"
    /\ \E service \in Services :
          registerFetched' =
              <<Fetch("register", <<Lit(RegisterUrl), Lit("/api/registry")>>, <<>>,
                      <<Item("Content-Type", StrV("application/json")),
                        Item("Accept", StrV("application/json"))>>,
                      "post", service)>>
    /\ registerPc' = "post"
    /\ UNCHANGED <<postResponse, conflictResponse, registration, optionVars, qualifyVars,
                   consumerVars, mapVars>>

\* the fetch of the POST rejects
PostFailed ==
    /\ registerPc = "post"
    /\ registerPc' = "rejected"
    /\ registration' = Settled("rejected", "fetch")
    /\ UNCHANGED <<registerFetched, postResponse, conflictResponse, optionVars, qualifyVars,
                   consumerVars, mapVars>>

\* the register answers the POST
PostResponded ==
    /\ registerPc = "post"
    /\ \E response \in Responses :
          LET after == afterPost(response)
          IN  /\ postResponse' = response
              /\ IF after.state = "conflict"
                 THEN /\ registerPc' = "conflict"
                      /\ registration' = registration
                      /\ registerFetched' =
                            Append(registerFetched,
                                   Fetch("register",
                                         <<Lit(RegisterUrl),
                                           Lit(Property(response.body, CONFLICT_RELATION_KEY).s)>>,
                                         <<>>, <<Item("Accept", StrV("application/json"))>>,
                                         "get", Null))
                 ELSE /\ registerPc' = after.state
                      /\ registration' = after
                      /\ registerFetched' = registerFetched
    /\ UNCHANGED <<conflictResponse, optionVars, qualifyVars, consumerVars, mapVars>>

\* the fetch of the conflicting service rejects
ConflictFailed ==
    /\ registerPc = "conflict"
    /\ registerPc' = "rejected"
    /\ registration' = Settled("rejected", "fetch")
    /\ UNCHANGED <<registerFetched, postResponse, conflictResponse, optionVars, qualifyVars,
                   consumerVars, mapVars>>

\* the register answers the GET of the conflicting service
ConflictResponded ==
    /\ registerPc = "conflict"
    /\ \E response \in Responses :
          /\ conflictResponse' = response
          /\ registration' = afterConflict(response)
          /\ registerPc' = afterConflict(response).state
    /\ UNCHANGED <<registerFetched, postResponse, optionVars, qualifyVars, consumerVars,
                   mapVars>>

NextRegister ==
    \/ RegisterService
    \/ PostFailed
    \/ PostResponded
    \/ ConflictFailed
    \/ ConflictResponded

SpecRegister == InitRegister /\ [][NextRegister]_vars

-----------------------------------------------------------------------------
\* What the claims about map.js speak of: the annotated nodes of a schema, in
\* depth-first order, each with the property names and the number of arrays
\* on the way from the root to it.

RECURSIVE annotatedNodes(_, _, _)
RECURSIVE annotatedBelow(_, _, _, _)

annotatedBelow(properties, k, path, arrays) ==
    IF k > Len(properties) THEN <<>>
    ELSE annotatedNodes(properties[k].schema, Append(path, properties[k].key), arrays)
         \o annotatedBelow(properties, k + 1, path, arrays)

annotatedNodes(schema, path, arrays) ==
    (IF schema.hasXProfile
     THEN <<[profileId |-> schema.xProfile, path |-> path, arrays |-> arrays]>>
     ELSE <<>>)
    \o (IF schema.type = "object" THEN annotatedBelow(schema.properties, 1, path, arrays)
        ELSE IF schema.type = "array" /\ schema.itemsKind = "schema"
        THEN annotatedNodes(schema.items[1], path, arrays + 1)
        ELSE <<>>)

RECURSIVE hasArray(_)
hasArray(schema) ==
    \/ schema.type = "array"
    \/ /\ schema.type = "object"
       /\ \E k \in 1..Len(schema.properties) : hasArray(schema.properties[k].schema)

\* every array of the schema has one schema object as its items
RECURSIVE plainArrays(_)
plainArrays(schema) ==
    IF schema.type = "array"
    THEN schema.itemsKind = "schema" /\ plainArrays(schema.items[1])
    ELSE IF schema.type = "object"
    THEN \A k \in 1..Len(schema.properties) : plainArrays(schema.properties[k].schema)
    ELSE TRUE

\* the names of a path joined with dots
RECURSIVE dotted(_)
dotted(path) ==
    IF Len(path) = 1 THEN path[1] ELSE path[1] \o <<".">> \o dotted(Tail(path))

scannedNodes == annotatedNodes(mappingSchema, <<>>, 0)

\* the scan returned one entry for each annotated node, in depth-first order
oneEntryPerNode ==
    /\ ~valueMapping.err
    /\ Len(valueMapping.results) = Len(scannedNodes)
    /\ \A i \in 1..Len(scannedNodes) :
          valueMapping.results[i].profileId = scannedNodes[i].profileId

conforms(n) == responseData = Instance(mappingSchema, n, 1)

\* C2 as stated: where exactly one array lies on the way to an annotated node,
\* the node's cursor has exactly two segments and, for a payload with n
\* elements in that array, the extracted value is a sequence of length n.
C2_OneBoundary ==
    (mapPhase = "mapped" /\ plainArrays(mappingSchema)) =>
        /\ oneEntryPerNode
        /\ \A i \in 1..Len(scannedNodes) : \A n \in 0..MaxElems :
              (scannedNodes[i].arrays = 1 /\ conforms(n)) =>
                  /\ Len(valueMapping.results[i].cursor) = 2
                  /\ valueMapping.results[i].value.kind = "array"
                  /\ Len(valueMapping.results[i].value.elems) = n

\* C3 as stated: the scan of object{companies: array of object{name}} is the
\* one entry P#op/Name with cursor ["companies", ""].
C3_Original ==
    (mapPhase = "scanned" /\ mappingSchema = CompaniesSchema) =>
        valueMapping.results = <<Entry(IdName, <<companies, ArraySentinel>>)>>

\* C3 amended: the scan of object{companies: array of object{name}} is the one
\* entry P#op/Name with cursor ["companies", "name"]: the sentinel pushed for
\* the array is replaced by the property name below it.
C3_CompaniesCursor ==
    (mapPhase = "scanned" /\ mappingSchema = CompaniesSchema) =>
        /\ ~valueMapping.err
        /\ valueMapping.results = <<Entry(IdName, <<companies, name>>)>>

C3_Witness ==
    /\ mapPhase = "scanned"
    /\ mappingSchema = CompaniesSchema
    /\ Len(valueMapping.results) = 1

\* the schema is object{a: array of object{p: annotated}}, each object with
\* that one property
arrayOfObjects ==
    /\ mappingSchema.type = "object"
    /\ Len(mappingSchema.properties) = 1
    /\ LET arr == mappingSchema.properties[1].schema
       IN  /\ arr.type = "array" /\ arr.itemsKind = "schema"
           /\ arr.items[1].type = "object"
           /\ Len(arr.items[1].properties) = 1
           /\ arr.items[1].properties[1].schema.hasXProfile

\* the payload is {a: [e1, ..., eN]}, every element an object
payloadOfObjects ==
    /\ responseData.kind = "object"
    /\ LET at == Property(responseData, mappingSchema.properties[1].key)
       IN  /\ at.kind = "array"
           /\ \A k \in 1..Len(at.elems) : at.elems[k].kind = "object"

\* C4 as stated: with property p of the object items of the array at property
\* a annotated, mapResponse gives that entry, for the payload
\* {a: [e1, ..., eN]}, the value [e1.p, ..., eN.p].
C4_ElementValues ==
    (mapPhase = "mapped" /\ arrayOfObjects /\ payloadOfObjects) =>
        LET arr == mappingSchema.properties[1].schema
            p == arr.items[1].properties[1].key
            elements == Property(responseData, mappingSchema.properties[1].key).elems
            i == 1 + (IF mappingSchema.hasXProfile THEN 1 ELSE 0)
                   + (IF arr.hasXProfile THEN 1 ELSE 0)
                   + (IF arr.items[1].hasXProfile THEN 1 ELSE 0)
        IN  /\ ~valueMapping.err
            /\ Len(valueMapping.results) >= i
            /\ valueMapping.results[i].value =
                  ArrV([k \in 1..Len(elements) |-> Property(elements[k], p)])

\* C5 as stated: a cursor of one segment that points at an array resolves to
\* the elements of that array, in order: extractValue of an element with no
\* segment left is the element.
C5_BaseCase ==
    mapPhase = "extracted" =>
        LET cursor == valueMapping.results[extracted.index].cursor
        IN  (Len(cursor) = 1 /\ _get(responseData, cursor[1]).kind = "array") =>
                extracted.value = _get(responseData, cursor[1])

\* C6: extractValue throws for no payload and no cursor of the scan; it is
\* undefined for a null or undefined payload, and where it fans out over an
\* array it is undefined at the place of each null or undefined element.
C6_NeverThrows ==
    mapPhase = "extracted" =>
        LET cursor == valueMapping.results[extracted.index].cursor
            found == _get(responseData, first(cursor))
        IN  /\ extracted.value.kind # "TypeError"
            /\ responseData.kind \in {"null", "undefined"} => extracted.value = Undefined
            /\ found.kind = "array" =>
                  /\ extracted.value.kind = "array"
                  /\ Len(extracted.value.elems) = Len(found.elems)
                  /\ \A k \in 1..Len(found.elems) :
                        found.elems[k].kind \in {"null", "undefined"}
                            => extracted.value.elems[k] = Undefined

\* a fan-out over an array whose last element is null: the value of the first
\* element, undefined for the last
C6_Witness ==
    /\ mapPhase = "extracted"
    /\ extracted.value.kind = "array"
    /\ Len(extracted.value.elems) = 2
    /\ extracted.value.elems[1] = StrV("A")
    /\ extracted.value.elems[2] = Undefined
    /\ Len(valueMapping.results[extracted.index].cursor) = 2

-----------------------------------------------------------------------------
\* What the claims about buildRequest speak of.

\* the parameters the operation P#op of the document declares
declaredParameters ==
    findOperation(This(ProfileId, ProviderUrl, authentication, Specification(oas)),
                  OpId).details.parameters

\* buildRequest has run in the call under way, for the operation P#op
buildRan == request.operation = OpId /\ httpRequest.kind \in {"request", "throw", "null"}

\* the caller gave an input that matches the annotation of declared parameter k
hasMatchingInput(k) ==
    /\ declaredParameters[k].hasXProfile
    /\ declaredParameters[k].xProfile = ParamProfileId(k)
    /\ hasOwn(request.parameters, ParamIds[k])

\* the credential field each of the four sources names, in a store
namedCredential(source, store) ==
    CASE source = SourceBasicUser -> credential(store, basic, userField)
      [] source = SourceBasicPassword -> credential(store, basic, passwordField)
      [] source = SourceApikeyKey -> credential(store, apikey, keyField)
      [] source = SourceApikeySecret -> credential(store, apikey, secretField)
      [] OTHER -> Undefined

\* the scheme a source reads
schemeOf(source) == IF source \in {SourceBasicUser, SourceBasicPassword} THEN basic ELSE apikey

\* the store holds the scheme of a source
holdsScheme(source, store) == store.kind = "object" /\ hasOwn(store, schemeOf(source))

\* declared parameter k resolves to no value: no matching input, no credential
\* value, no literal
unresolved(k) ==
    /\ ~hasMatchingInput(k)
    /\ declaredParameters[k].super # "value"
    /\ declaredParameters[k].super = "source" =>
           namedCredential(declaredParameters[k].source, authentication) = Undefined

required(k) == declaredParameters[k].hasRequired /\ declaredParameters[k].required

\* what a built request holds for a parameter name: the values of the query
\* items and the headers of that name, and those put in place of {name}
placedValues(built, pname) ==
    {built.query[i].value : i \in {j \in 1..Len(built.query) : built.query[j].name = pname}}
    \cup {built.headers[i].value :
             i \in {j \in 1..Len(built.headers) : built.headers[j].name = pname}}
    \cup {built.url[i].val :
             i \in {j \in 1..Len(built.url) :
                       built.url[j].kind = "value" /\ built.url[j].name = pname}}

\* the url of a built request still holds the template {name}
holdsTemplate(built, pname) == \E i \in 1..Len(built.url) : built.url[i] = Hole(pname)

noServiceCall == \A i \in 1..Len(fetched) : fetched[i].target # "service"

\* C7: when buildRequest has built a request, every declared parameter whose
\* annotation id is among the qualified inputs and that carries an x-super
\* hint (a credential source or a literal) is placed once, with the value the
\* caller gave, whatever the credential store holds.
C7_ExplicitInputWins ==
    \A k \in 1..Len(declaredParameters) :
        (/\ request.operation = OpId
         /\ httpRequest.kind = "request"
         /\ hasMatchingInput(k)
         /\ declaredParameters[k].super \in {"source", "value"})
        => placedValues(httpRequest, declaredParameters[k].name)
               = {Property(request.parameters, ParamIds[k])}

\* C7 witness: a request is sent in which a parameter has both an input and a
\* credential hint whose field the store holds.
C7_Witness ==
    /\ pc = "execute"
    /\ request.operation = OpId
    /\ \E k \in 1..Len(declaredParameters) :
          /\ hasMatchingInput(k)
          /\ declaredParameters[k].super = "source"
          /\ namedCredential(declaredParameters[k].source, authentication) # Undefined

\* C8: when buildRequest has run and a declared parameter is required and
\* resolves to no value, buildRequest has thrown the error of a required
\* parameter, perform is rejected with it and has issued no call to the
\* service; the error names the parameter and its annotation id, the first
\* such parameter when there are several.
C8_RequiredFails ==
    \A k \in 1..Len(declaredParameters) :
        (buildRan /\ required(k) /\ unresolved(k))
        => /\ httpRequest.kind = "throw"
           /\ pc = "rejected"
           /\ result.state = "rejected"
           /\ result.error.kind = "required"
           /\ noServiceCall
           /\ (\A j \in 1..(k - 1) : ~(required(j) /\ unresolved(j)))
              => /\ result.error.name = declaredParameters[k].name
                 /\ declaredParameters[k].hasXProfile
                    => result.error.profileId = declaredParameters[k].xProfile

\* C8 witness: perform is rejected for a required parameter that has an
\* annotation id and a credential hint, with no input and no such credential.
C8_Witness ==
    /\ pc = "rejected"
    /\ buildRan
    /\ \E k \in 1..Len(declaredParameters) :
          /\ required(k)
          /\ unresolved(k)
          /\ declaredParameters[k].hasXProfile
          /\ declaredParameters[k].super = "source"
          /\ result.error.name = declaredParameters[k].name

\* C9: when buildRequest has run and a declared parameter is not required and
\* resolves to no value, buildRequest has not thrown for it, and the request
\* built has no query item and no header of its name and still holds its
\* {name} template; every later parameter with a matching input or a literal
\* string is placed.
C9_OmittedWhenUnresolved ==
    \A k \in 1..Len(declaredParameters) :
        (buildRan /\ ~required(k) /\ unresolved(k))
        => /\ httpRequest.kind = "throw" => httpRequest.error.name # declaredParameters[k].name
           /\ httpRequest.kind = "request"
              => /\ placedValues(httpRequest, declaredParameters[k].name) = {}
                 /\ holdsTemplate(httpRequest, declaredParameters[k].name)
                 /\ \A j \in (k + 1)..Len(declaredParameters) :
                       (hasMatchingInput(j) \/ declaredParameters[j].value = StrV("literal"))
                       => placedValues(httpRequest, declaredParameters[j].name) # {}

\* C9 witness: a request is built that leaves out a non-required parameter
\* with a credential hint and holds the parameter declared after it.
C9_Witness ==
    /\ httpRequest.kind = "request"
    /\ request.operation = OpId
    /\ \E k \in 1..(Len(declaredParameters) - 1) :
          /\ ~required(k)
          /\ unresolved(k)
          /\ declaredParameters[k].super = "source"
          /\ placedValues(httpRequest, declaredParameters[k + 1].name) # {}

\* C10: when buildRequest has run, a declared parameter with no matching input
\* and one of the four credential sources is placed with the credential field
\* the source names when the store holds its scheme (unless buildRequest threw
\* for another parameter); when the store lacks the scheme the parameter is
\* not placed, and buildRequest throws for it only if it is required.
C10_FourSources ==
    \A k \in 1..Len(declaredParameters) :
        (buildRan /\ declaredParameters[k].super = "source" /\ ~hasMatchingInput(k))
        => IF holdsScheme(declaredParameters[k].source, authentication)
           THEN \/ /\ httpRequest.kind = "request"
                   /\ placedValues(httpRequest, declaredParameters[k].name)
                          = {namedCredential(declaredParameters[k].source, authentication)}
                \/ /\ httpRequest.kind = "throw"
                   /\ httpRequest.error.name # declaredParameters[k].name
           ELSE /\ httpRequest.kind = "request"
                   => placedValues(httpRequest, declaredParameters[k].name) = {}
                /\ (httpRequest.kind = "throw"
                    /\ httpRequest.error.name = declaredParameters[k].name) => required(k)

\* C11: when buildRequest has run, a declared parameter with no matching input
\* and a literal in its x-super is placed with exactly that literal, whatever
\* the literal is (0, false and the empty string included), unless
\* buildRequest threw for another parameter; it never throws for this one.
C11_LiteralVerbatim ==
    \A k \in 1..Len(declaredParameters) :
        (buildRan /\ declaredParameters[k].super = "value" /\ ~hasMatchingInput(k))
        => \/ /\ httpRequest.kind = "request"
              /\ placedValues(httpRequest, declaredParameters[k].name)
                     = {declaredParameters[k].value}
           \/ /\ httpRequest.kind = "throw"
              /\ httpRequest.error.name # declaredParameters[k].name

-----------------------------------------------------------------------------
\* What the claims about the request body speak of.

\* the operation P#op of the document
declaredOperation ==
    findOperation(This(ProfileId, ProviderUrl, authentication, Specification(oas)),
                  OpId).details

\* the media types of its request body, in declaration order
declaredContent == declaredOperation.content

supported(mediaType) ==
    mediaType = "application/json" \/ mediaType = "application/x-www-form-urlencoded"

\* C12: when buildRequest has run for an operation whose request body declares
\* a media type other than application/json and
\* application/x-www-form-urlencoded, wherever in the declaration it stands,
\* buildRequest has given no request, perform is rejected and has issued no
\* call to the service.
C12_UnsupportedMediaType ==
    (/\ buildRan
     /\ declaredOperation.hasRequestBody
     /\ \E i \in 1..Len(declaredContent) : ~supported(declaredContent[i].mediaType))
    => /\ httpRequest.kind \in {"null", "throw"}
       /\ pc = "rejected"
       /\ result.state = "rejected"
       /\ noServiceCall

\* C12 witness: perform is rejected for a request body whose first media type
\* is supported and whose second is not.
C12_Witness ==
    /\ buildRan
    /\ pc = "rejected"
    /\ httpRequest.kind = "null"
    /\ declaredOperation.hasRequestBody
    /\ Len(declaredContent) = 2
    /\ supported(declaredContent[1].mediaType)
    /\ ~supported(declaredContent[2].mediaType)

\* the keys of the direct properties of a schema
directKeys(properties) == {properties[i].key : i \in 1..Len(properties)}

\* the keys of a body object
bodyKeys(body) == {body.fields[i].key : i \in 1..Len(body.fields)}

allSupported ==
    /\ declaredOperation.hasRequestBody
    /\ declaredContent # <<>>
    /\ \A i \in 1..Len(declaredContent) : supported(declaredContent[i].mediaType)

\* C13: when buildRequest has built a request for an operation all of whose
\* request media types are supported, the content-type header is the first
\* media type declared and the body is an object built of the direct
\* properties of the first media type's schema: every key of the body is the
\* key of one of them (no key of a nested property, none of a later media
\* type), and a direct property whose annotation id is among the inputs is in
\* the body with the input.
C13_FirstMediaType ==
    (request.operation = OpId /\ httpRequest.kind = "request" /\ allSupported)
    => /\ placedValues(httpRequest, "content-type") = {StrV(declaredContent[1].mediaType)}
       /\ httpRequest.body.kind = "object"
       /\ bodyKeys(httpRequest.body) \subseteq directKeys(declaredContent[1].properties)
       /\ \A i \in 1..Len(declaredContent[1].properties) :
             LET property == declaredContent[1].properties[i]
             IN  (property.hasXProfile /\ hasOwn(request.parameters, ParamIds[1])
                  /\ property.xProfile = ParamProfileId(1))
                 => Property(httpRequest.body, property.key)
                        = Property(request.parameters, ParamIds[1])

\* C13 witness: a request is sent for a body of two different supported media
\* types, with inputs for the annotated direct property and for the nested one.
C13_Witness ==
    /\ pc = "execute"
    /\ request.operation = OpId
    /\ allSupported
    /\ Len(declaredContent) = 2
    /\ declaredContent[1].mediaType # declaredContent[2].mediaType
    /\ declaredContent[1].properties[1].hasXProfile
    /\ hasOwn(request.parameters, ParamIds[1])
    /\ hasOwn(request.parameters, ParamIds[2])
    /\ bodyKeys(httpRequest.body) = {BodyKey}

\* what the priority policy of a parameter gives a body property: the input
\* that matches its annotation, else the credential its source names, else its
\* literal, else nothing
policyValue(property) ==
    IF property.hasXProfile /\ property.xProfile = ParamProfileId(1)
       /\ hasOwn(request.parameters, ParamIds[1])
    THEN Property(request.parameters, ParamIds[1])
    ELSE IF property.super = "source" THEN namedCredential(property.source, authentication)
    ELSE IF property.super = "value" THEN property.value
    ELSE Undefined

\* C14: when buildRequest has built a request for an operation all of whose
\* request media types are supported, every direct property of the first
\* schema is in the body with the value the priority policy of a parameter
\* gives it (input, else credential, else literal), and is not in the body
\* when the policy gives none.
C14_BodyPolicy ==
    (request.operation = OpId /\ httpRequest.kind = "request" /\ allSupported)
    => \A i \in 1..Len(declaredContent[1].properties) :
          LET property == declaredContent[1].properties[i]
          IN  IF policyValue(property) = Undefined
              THEN property.key \notin bodyKeys(httpRequest.body)
              ELSE /\ property.key \in bodyKeys(httpRequest.body)
                   /\ Property(httpRequest.body, property.key) = policyValue(property)

\* a required body property that resolves to no value
requiredBodyPropertyUnresolved ==
    \E i \in 1..Len(declaredContent[1].properties) :
        /\ declaredContent[1].properties[i].required
        /\ policyValue(declaredContent[1].properties[i]) = Undefined

\* C15: when buildRequest has run for an operation all of whose request media
\* types are supported and a required direct property of the first schema
\* resolves to no value, buildRequest has thrown, perform is rejected and has
\* issued no call to the service.
C15_RequiredBodyProperty ==
    (buildRan /\ allSupported /\ requiredBodyPropertyUnresolved)
    => /\ httpRequest.kind = "throw"
       /\ pc = "rejected"
       /\ noServiceCall

-----------------------------------------------------------------------------
\* What the claims about security requirements speak of.

\* the ids the security components of the document define
definedSecurityIds ==
    IF oas.hasSecuritySchemes
    THEN {oas.securitySchemes[i].id : i \in 1..Len(oas.securitySchemes)}
    ELSE {}

\* some security requirement of the operation is not among the components
undefinedRequirement ==
    /\ declaredOperation.hasSecurity
    /\ \E i \in 1..Len(declaredOperation.security) :
          declaredOperation.security[i] \notin definedSecurityIds

\* C16: when buildRequest has run for an operation one of whose security
\* requirements the security components do not define (or there are no
\* components), buildRequest has given no request, perform is rejected and has
\* issued no call to the service.
C16_UndefinedSecurity ==
    (buildRan /\ undefinedRequirement)
    => /\ httpRequest.kind \in {"null", "throw"}
       /\ pc = "rejected"
       /\ noServiceCall

-----------------------------------------------------------------------------
\* What the claims about normalizeResponse speak of.

\* the operation perform was called for, as findOperation gives it
foundOperation ==
    findOperation(This(ProfileId, ProviderUrl, authentication, Specification(oas)),
                  request.operation)

\* the entries of the scan of the response schema
scannedEntries == traverseMapping(foundOperation.responseSchema.schema, <<>>).results

\* the requested names, and the entries whose id is the profile id, "#" and
\* the name
requestedNames == {request.response[i] : i \in 1..Len(request.response)}

entriesNamed(n) ==
    {i \in 1..Len(scannedEntries) : scannedEntries[i].profileId = ProfileId \o <<"#">> \o n}

\* perform has resolved for an operation with a response schema
normalized == pc = "resolved" /\ foundOperation.responseSchema.has

\* C17: when perform has resolved for an operation with a response schema, the
\* result is an object whose keys are the requested names that some scanned
\* entry's id, qualified, equals, and the value of each is the value
\* extractValue gives for the cursor of such an entry and the payload.
C17_RequestedSubset ==
    normalized
    => /\ result.value.kind = "object"
       /\ bodyKeys(result.value) = {n \in requestedNames : entriesNamed(n) # {}}
       /\ \A n \in bodyKeys(result.value) :
             \E i \in entriesNamed(n) :
                Property(result.value, n) = extractValue(httpResponse, scannedEntries[i].cursor)

\* C17 witness: a result with one of two requested names, of a schema with two
\* annotations, one of them not requested.
C17_Witness ==
    /\ normalized
    /\ foundOperation.responseSchema.schema = TitleAndNameSchema
    /\ request.response = RequestedResponse
    /\ bodyKeys(result.value) = {RequestedResponse[1]}
    /\ Property(result.value, RequestedResponse[1]) = Property(httpResponse, title)
    /\ Property(httpResponse, title).kind = "string"

\* C18: when perform has resolved for an operation with no response schema,
\* the result is an empty object.
C18_EmptyResult ==
    (pc = "resolved" /\ ~foundOperation.responseSchema.has) => result.value = ObjV(<<>>)

\* the response schema whose only annotation is P#op/title on the property
\* title, and a payload with a title
titleExample ==
    /\ pc = "resolved"
    /\ foundOperation.responseSchema.has
    /\ foundOperation.responseSchema.schema = TitleSchema
    /\ Property(httpResponse, title).kind = "string"

\* C19 as stated: with profile P, the names ["title", "description"] and a
\* response schema whose only annotation is P#op/title on the property title,
\* the result has the key title with the payload's title, and no key
\* description.
C19_Original ==
    (titleExample /\ request.response \in OtherRequestedResponses
     /\ request.response[1] = title)
    => /\ bodyKeys(result.value) = {title}
       /\ Property(result.value, title) = Property(httpResponse, title)

\* C19 amended: with profile P, the names ["op/title", "op/desc"] and a
\* response schema whose only annotation is P#op/title on the property title,
\* the result has the key op/title with the payload's title, and no other key;
\* with the names ["title", "description"] the result has no key.
C19_TitleExample ==
    /\ (titleExample /\ request.response = RequestedResponse)
       => /\ bodyKeys(result.value) = {RequestedResponse[1]}
          /\ Property(result.value, RequestedResponse[1]) = Property(httpResponse, title)
    /\ (titleExample /\ request.response \in OtherRequestedResponses
        /\ request.response[1] = title)
       => result.value = ObjV(<<>>)

\* C19 witness: the result {"op/title": "A"} of the names ["op/title",
\* "op/desc"] and the payload {title: "A"}.
C19_Witness ==
    /\ titleExample
    /\ request.response = RequestedResponse
    /\ result.value = ObjV(<<Field(RequestedResponse[1], Property(httpResponse, title))>>)

-----------------------------------------------------------------------------
\* What the claim about repeated calls of the map.js functions speaks of.

-----------------------------------------------------------------------------
\* What the claims about the cursors of the scan speak of.

\* C23 as stated: every cursor traverseMapping emits has at least one
\* segment, whatever node of the schema carries the annotation, the root
\* included.
C23_NonEmptyCursor ==
    (mapPhase = "scanned" /\ ~valueMapping.err) =>
        \A i \in 1..Len(valueMapping.results) : Len(valueMapping.results[i].cursor) >= 1

\* the root is an array whose items is a sequence of schemas, the first of
\* them annotated
tupleRoot ==
    /\ mappingSchema.type = "array"
    /\ mappingSchema.itemsKind = "list"
    /\ mappingSchema.items # <<>>
    /\ mappingSchema.items[1].hasXProfile

\* C25 as stated: of an array whose items is a sequence of schemas the scan
\* emits the annotation of the first schema, with the array sentinel as its
\* cursor, and nothing of the later schemas.
C25_TupleFirst ==
    (mapPhase = "scanned" /\ tupleRoot) =>
        /\ ~valueMapping.err
        /\ valueMapping.results =
              (IF mappingSchema.hasXProfile
               THEN <<Entry(mappingSchema.xProfile, <<>>)>> ELSE <<>>)
              \o <<Entry(mappingSchema.items[1].xProfile, <<ArraySentinel>>)>>

\* the root is an object with no properties or an array with no items
childless ==
    \/ mappingSchema.type = "object" /\ mappingSchema.properties = <<>>
    \/ mappingSchema.type = "array" /\ mappingSchema.itemsKind = "none"

\* C26 as stated: no scan ends in an error, and the scan of an object with no
\* properties or of an array with no items returns the node's own entry if it
\* is annotated, and nothing else.
C26_ChildlessEnds ==
    mapPhase = "scanned" =>
        /\ ~valueMapping.err
        /\ childless =>
              valueMapping.results =
                  IF mappingSchema.hasXProfile
                  THEN <<Entry(mappingSchema.xProfile, <<>>)>> ELSE <<>>

\* the annotated nodes of a schema in depth-first order, each with its chain
\* of ancestors (the index of the property taken at each object, 0 for the
\* items of an array) and the number of annotated nodes above it
RECURSIVE chainNodes(_, _, _)
RECURSIVE chainBelow(_, _, _, _)

chainBelow(schema, k, chain, above) ==
    IF k > Len(schema.properties) THEN <<>>
    ELSE chainNodes(schema.properties[k].schema, Append(chain, k), above)
         \o chainBelow(schema, k + 1, chain, above)

chainNodes(schema, chain, above) ==
    LET below == above + (IF schema.hasXProfile THEN 1 ELSE 0)
    IN  (IF schema.hasXProfile THEN <<[chain |-> chain, above |-> above]>> ELSE <<>>)
        \o (IF schema.type = "object" THEN chainBelow(schema, 1, chain, below)
            ELSE IF schema.type = "array" /\ schema.itemsKind = "schema"
            THEN chainNodes(schema.items[1], Append(chain, 0), below)
            ELSE <<>>)

\* the schema with every sibling of the nodes of the chain left out
RECURSIVE alone(_, _)
alone(schema, chain) ==
    IF chain = <<>> THEN schema
    ELSE IF chain[1] = 0
    THEN [schema EXCEPT !.items = <<alone(schema.items[1], Tail(chain))>>]
    ELSE [schema EXCEPT !.properties =
              <<Prop(schema.properties[chain[1]].key,
                     alone(schema.properties[chain[1]].schema, Tail(chain)))>>]

\* the root is an object whose first property is an array and whose second
\* property is not
arrayThenOther ==
    /\ mappingSchema.type = "object"
    /\ Len(mappingSchema.properties) = 2
    /\ mappingSchema.properties[1].schema.type = "array"
    /\ mappingSchema.properties[2].schema.type # "array"

\* C30: the cursor of every entry is the cursor the same node gets in the
\* schema that holds its ancestors and none of their siblings; and in an
\* object whose first property is an array and whose second is not, the
\* cursors of the second property and of the nodes below it are the one
\* segment of dotted property names, with no sentinel and nothing of the
\* array.
C30_SiblingIsolation ==
    (mapPhase = "scanned" /\ ~valueMapping.err) =>
        LET nodes == chainNodes(mappingSchema, <<>>, 0)
        IN  /\ Len(valueMapping.results) = Len(nodes)
            /\ \A i \in 1..Len(nodes) :
                  LET single == traverseMapping(alone(mappingSchema, nodes[i].chain), <<>>)
                  IN  /\ ~single.err
                      /\ valueMapping.results[i].cursor =
                            single.results[nodes[i].above + 1].cursor
                      /\ (arrayThenOther /\ nodes[i].chain # <<>> /\ nodes[i].chain[1] = 2) =>
                            valueMapping.results[i].cursor = <<dotted(scannedNodes[i].path)>>

\* C30 witness: a scan of object{a: array of object{c: annotated},
\* b: object{c: annotated}}, which gave the later property's node "b.c"
C30_Witness ==
    /\ mapPhase = "scanned"
    /\ arrayThenOther
    /\ Len(valueMapping.results) = 2
    /\ valueMapping.results[1].cursor = <<KeyA, KeyC>>
    /\ valueMapping.results[2].cursor = <<KeyB \o <<".">> \o KeyC>>

-----------------------------------------------------------------------------
\* What the claim about the constructors' options speaks of.

\* the fetch the options given to instance i name, or the library's
ownFetch(i) ==
    IF instances[i].given.given /\ instances[i].given.hasFetch
    THEN instances[i].given.fetch
    ELSE LibraryFetch

\* C21 as stated: the fetch an instance calls is the one given in its own
\* constructor options, or the library default when none was given, whatever
\* other Consumers or Registers were constructed before or after it.
C21_OwnFetch ==
    fetchCalled.instance # 0 => fetchCalled.fetch = ownFetch(fetchCalled.instance)

-----------------------------------------------------------------------------
\* What the claim about qualification speaks of.

\* C22 as stated: for two distinct pairs (affordanceId, parameterId) the
\* qualified ids differ, and an input given for one pair does not resolve a
\* parameter annotated with the id of the other.
C22_PairsSeparate ==
    (qualification.done /\ given # declaredFor) =>
        /\ qualification.inputId # qualification.fullParameterId
        /\ ~qualification.isProvided

-----------------------------------------------------------------------------
\* What the claim about registerService speaks of.

\* registerService has settled after every fetch it made was answered
answered ==
    /\ registerPc \in {"resolved", "rejected"}
    /\ postResponse # NoResponse
    /\ Len(registerFetched) = 2 => conflictResponse # NoResponse

\* the POST was answered 409 with a non-empty conflictUrl
conflictAnnounced ==
    /\ postResponse.status = 409
    /\ postResponse.body.kind = "object"
    /\ truthy(Property(postResponse.body, CONFLICT_RELATION_KEY))

\* the GETs among the calls of fetch
conflictFetches == {i \in 1..Len(registerFetched) : registerFetched[i].method = "get"}

\* C29 as stated: once its fetches are answered, registerService resolves
\* created iff the POST response is ok, resolves conflict iff the POST was
\* answered 409 with a non-empty conflictUrl and the GET response is ok,
\* rejects failed-conflict iff that GET response is not ok, and rejects failed
\* in every other case; the GET is issued only after such a 409 and at most
\* once.
C29_FourOutcomes ==
    /\ conflictFetches # {} => conflictAnnounced
    /\ Cardinality(conflictFetches) <= 1
    /\ answered =>
          LET created == postResponse.ok
              conflict == conflictAnnounced /\ conflictResponse.ok
              failedConflict == conflictFetches # {} /\ ~conflictResponse.ok
          IN  /\ registration = Settled("resolved", "created") <=> created
              /\ registration = Settled("resolved", "conflict") <=> conflict
              /\ registration = Settled("rejected", "failed-conflict") <=> failedConflict
              /\ registration = Settled("rejected", "failed")
                    <=> ~(created \/ conflict \/ failedConflict)

-----------------------------------------------------------------------------
\* What the claim about the order of the security requirements speaks of.

\* the scheme the components give the first security requirement of the
\* operation, the empty string if they define none
firstScheme ==
    LET defined == {k \in 1..Len(oas.securitySchemes) :
                       oas.securitySchemes[k].id = declaredOperation.security[1]}
    IN  IF oas.hasSecuritySchemes /\ defined # {}
        THEN oas.securitySchemes[CHOOSE k \in defined : TRUE].scheme
        ELSE <<>>

\* C24 as stated: when the operation declares security requirements and the
\* call to the service has been made, the first requirement in declaration
\* order is the one it was authenticated with: that requirement is defined as
\* the supported scheme (basic), the credentials of that scheme are at hand
\* and are what the Authorization header holds. In every other case no call
\* was made.
C24_FirstSchemeWins ==
    (buildRan /\ declaredOperation.hasSecurity /\ declaredOperation.security # <<>>
        /\ ~noServiceCall) =>
        /\ firstScheme = basic
        /\ truthy(authentication) /\ hasOwn(authentication, basic)
        /\ \A i \in 1..Len(fetched) :
              fetched[i].target = "service" =>
                  \E h \in 1..Len(fetched[i].headers) :
                      fetched[i].headers[h] =
                          Item("Authorization",
                               basicAuthorization(Property(authentication, basic)))

-----------------------------------------------------------------------------
\* What the claims about the steps of perform speak of.

\* some operation of the document carries profileId + "#" + operation
matches ==
    \E i \in 1..Len(oas.paths) : \E j \in 1..Len(oas.paths[i].operations) :
        oas.paths[i].operations[j].details.xProfile = ProfileId \o <<"#">> \o request.operation

\* the calls of fetch for the specification, and those to the service
specificationFetches(calls) == {i \in 1..Len(calls) : calls[i].target = "specification"}
serviceCalls(calls) == {i \in 1..Len(calls) : calls[i].target = "service"}

\* C27: in a perform call the specification is fetched before anything is
\* found or built; a call to the service has been made only with the
\* specification at hand, an operation found and a request built, it is made
\* once and is the last call; perform resolves only after it; and when no
\* operation of the document carries profileId + "#" + operation, perform is
\* rejected with no request built and no call to the service.
C27_StepOrder ==
    /\ pc = "fetchSpecification" =>
          /\ fetched = <<SpecificationFetch>>
          /\ httpRequest.kind = "none"
          /\ result = NoResult
    /\ httpRequest.kind # "none" => apiSpecification.fetched /\ matches
    /\ serviceCalls(fetched) # {} =>
          /\ apiSpecification.fetched
          /\ matches
          /\ httpRequest.kind = "request"
          /\ serviceCalls(fetched) = {Len(fetched)}
    /\ pc \in {"execute", "resolved"} => serviceCalls(fetched) # {}
    /\ (pc \notin {"idle", "fetchSpecification"} /\ apiSpecification.fetched /\ ~matches) =>
          /\ pc = "rejected"
          /\ result = Rejected(OtherError("No operation found"))
          /\ httpRequest.kind = "none"
          /\ serviceCalls(fetched) = {}

\* C27 witness: perform of an operation the document does not hold, rejected
\* after the fetch of the specification
C27_Witness ==
    /\ pc = "rejected"
    /\ request.operation = NoSuchOpId
    /\ fetched = <<SpecificationFetch>>
    /\ apiSpecification.fetched
    /\ httpRequest.kind = "none"

\* C28: a stored specification stays stored; a perform call that starts with
\* a specification stored makes no call for the specification; a perform call
\* that starts with none stored fetches it; and a failed fetch stores nothing
\* and rejects perform with nothing found, built or sent.
C28_SpecificationCached ==
    [][/\ apiSpecification.fetched =>
             /\ apiSpecification' = apiSpecification
             /\ specificationFetches(fetched') \subseteq specificationFetches(fetched)
       /\ (pc = "idle" /\ pc' # "idle" /\ ~apiSpecification.fetched) =>
             /\ pc' = "fetchSpecification"
             /\ fetched' = <<SpecificationFetch>>
       /\ (pc = "fetchSpecification" /\ ~apiSpecification'.fetched) =>
             /\ pc' = "rejected"
             /\ result'.state = "rejected"
             /\ apiSpecification' = NoSpecification
             /\ httpRequest'.kind = "none"
             /\ fetched' = fetched]_vars

\* C28 witness: a perform call that started with the specification stored and
\* has made the call to the service as its only call
C28_Witness ==
    /\ pc = "execute"
    /\ apiSpecification.fetched
    /\ Len(fetched) = 1
    /\ fetched[1].target = "service"

====
